---- MODULE Spec2Model ----
(***************************************************************************)
(* State-machine model of the hospital assistant backend:                  *)
(*   - ConversationMemory (app/services/memory.py): the bounded,           *)
(*     lock-protected per-conversation history store;                      *)
(*   - GeminiChatService.generate_reply (app/services/llm.py): the         *)
(*     orchestration loop around the model client and the tool registry.   *)
(* Every worker is a thread of the FastAPI thread pool (app/main.py).      *)
(***************************************************************************)
EXTENDS Integers, Sequences, FiniteSets, TLC

VARIABLES
    store,      \* ConversationMemory._store: dict conversation_id -> deque
    lock,       \* ConversationMemory._lock: its holder, or NoWorker
    pc,         \* per worker: the statement it is about to execute
    mem,        \* per worker: the frame of its ConversationMemory call
    gr,         \* per worker: the frame of its generate_reply call
    settings,   \* app.config.settings: the process-wide configuration
    oplog,      \* history variable: per identifier, the mutating store calls
                \* since the window was last defined, in lock order
    ncalls      \* history variable: number of top-level calls started

vars == <<store, lock, pc, mem, gr, settings, oplog, ncalls>>

-----------------------------------------------------------------------------
(* Program constants *)

MAX_HISTORY_MESSAGES == 5
max_tool_iterations == 3
DEFAULT_CONVERSATION_ID == "_default_session"

(* Bounds of the model *)

MaxCalls == 4          \* top-level calls started in one behaviour
MaxPayload == 6        \* longest turn list a caller supplies

Workers == {"w1", "w2"}
NoWorker == "none"
None == "None"         \* Python's None for optional strings

Roles == <<"user", "assistant", "system">>

\* Message(role=..., content=...) of app/schemas.py
Message(role, content) == [role |-> role, content |-> content]

\* Identifiers the store is exercised with
StoreIds == {"c1", DEFAULT_CONVERSATION_ID}

-----------------------------------------------------------------------------
(* collections.deque(maxlen=...) and the Python list operations used *)

\* deque(maxlen=n).append(m): a full deque drops its oldest element
DequeAppendDropNewest(d, m, maxlen) ==
    IF Len(d) < maxlen THEN Append(d, m) ELSE d

DequeAppendUnbounded(d, m, maxlen) == Append(d, m)

DequeAppend(d, m, maxlen) ==
    IF maxlen = 0 THEN d
    ELSE IF Len(d) < maxlen THEN Append(d, m)
    ELSE Append(Tail(d), m)

\* dict without key k (dict.pop(k, None))
DictPop(d, k) == [x \in (DOMAIN d) \ {k} |-> d[x]]

\* dict with d[k] = v
DictSet(d, k, v) == [x \in (DOMAIN d) \cup {k} |-> IF x = k THEN v ELSE d[x]]

\* the window stored under k, empty when there is none
Window(d, k) == IF k \in DOMAIN d THEN d[k] ELSE <<>>

-----------------------------------------------------------------------------
(* Frames *)

\* `ahead` is a history field: the writes that reached the store for the same
\* identifier before this call and have not taken the lock yet
NoMem == [op |-> "none", id |-> None, msgs |-> <<>>, limited |-> <<>>,
          result |-> <<>>, ret |-> "idle", ahead |-> {}]

NoRequest == [active |-> FALSE]

\* A caller's turn list of n turns tagged with `tag`
Payload(tag, n) ==
    [i \in 1..n |-> Message(Roles[((i - 1) % 3) + 1], tag \o "#" \o ToString(i))]

-----------------------------------------------------------------------------
(* ConversationMemory *)

\* set_history and append_messages: the calls that write turns
IsWrite(op) == op \in {"set_history", "append_messages"}

\* the workers whose write on id has entered its method and waits for the lock
WritersAhead(w, op, id) ==
    IF IsWrite(op)
    THEN {v \in Workers \ {w} :
             pc[v] = "acquire" /\ mem[v].id = id /\ IsWrite(mem[v].op)}
    ELSE {}

\* Entering a ConversationMemory method: the frame of the call
Invoke(w, op, id, msgs, ret) ==
    /\ mem' = [mem EXCEPT ![w] = [op |-> op, id |-> id, msgs |-> msgs,
                                  limited |-> <<>>, result |-> <<>>, ret |-> ret,
                                  ahead |-> WritersAhead(w, op, id)]]
    /\ pc' = [pc EXCEPT ![w] = "acquire"]

\* threading.Lock: acquire succeeds only while nobody holds it
CanAcquire == lock = NoWorker

\* The history variable after a mutating call took the lock: `prior` is the
\* length of the window the call found, `contended` whether another thread
\* was then waiting to append to the same identifier
Logged(log, op, msgs, prior, contended) ==
    LET entry == [op |-> op, turns |-> msgs, prior |-> prior,
                  contended |-> contended]
    IN  CASE op = "set_history" -> <<entry>>
          [] op = "clear" -> <<[entry EXCEPT !.turns = <<>>]>>
          [] op = "append_messages" -> Append(log, entry)
          [] OTHER -> log

BodyEntry(op) ==
    CASE op = "get_history" -> "get_body"
      [] op = "set_history" -> "set_loop"
      [] op = "append_messages" -> "append_setdefault"
      [] op = "clear" -> "clear_pop"

\* `with self._lock:` on entry
Acquire(w) ==
    /\ pc[w] = "acquire"
    /\ CanAcquire
    /\ lock' = w
    /\ pc' = [pc EXCEPT ![w] = BodyEntry(mem[w].op)]
    /\ oplog' = [oplog EXCEPT ![mem[w].id] =
                    Logged(@, mem[w].op, mem[w].msgs,
                           Len(Window(store, mem[w].id)),
                           \E v \in Workers \ {w} :
                               /\ pc[v] = "acquire"
                               /\ mem[v].op = "append_messages"
                               /\ mem[v].id = mem[w].id)]
    /\ mem' = [v \in Workers |-> [mem[v] EXCEPT !.ahead = @ \ {w}]]
    /\ UNCHANGED <<store, gr, settings, ncalls>>

\* get_history: the snapshot copy, or [] for an unknown identifier
GetBody(w) ==
    /\ pc[w] = "get_body"
    /\ mem' = [mem EXCEPT ![w].result =
                  IF mem[w].id \notin DOMAIN store THEN <<>> ELSE store[mem[w].id]]
    /\ pc' = [pc EXCEPT ![w] = "release"]
    /\ UNCHANGED <<store, lock, gr, settings, oplog, ncalls>>

\* set_history: one iteration of `for message in messages: limited.append(message)`
SetLoop(w) ==
    /\ pc[w] = "set_loop"
    /\ mem[w].msgs # <<>>
    /\ mem' = [mem EXCEPT ![w].limited =
                     DequeAppend(@, Head(mem[w].msgs), MAX_HISTORY_MESSAGES),
                  ![w].msgs = Tail(@)]
    /\ UNCHANGED <<store, lock, pc, gr, settings, oplog, ncalls>>

\* set_history: `self._store[conversation_id] = limited`
SetStoreExtends(w) ==
    /\ pc[w] = "set_loop"
    /\ mem[w].msgs = <<>>
    /\ LET all == Window(store, mem[w].id) \o mem[w].limited
       IN  store' = DictSet(store, mem[w].id,
                            IF Len(all) <= MAX_HISTORY_MESSAGES THEN all
                            ELSE SubSeq(all, Len(all) - MAX_HISTORY_MESSAGES + 1,
                                        Len(all)))
    /\ pc' = [pc EXCEPT ![w] = "release"]
    /\ UNCHANGED <<lock, mem, gr, settings, oplog, ncalls>>

SetStore(w) ==
    /\ pc[w] = "set_loop"
    /\ mem[w].msgs = <<>>
    /\ store' = DictSet(store, mem[w].id, mem[w].limited)
    /\ pc' = [pc EXCEPT ![w] = "release"]
    /\ UNCHANGED <<lock, mem, gr, settings, oplog, ncalls>>

\* append_messages: `self._store.setdefault(conversation_id, deque(maxlen=...))`
AppendSetdefault(w) ==
    /\ pc[w] = "append_setdefault"
    /\ store' = IF mem[w].id \in DOMAIN store THEN store
                ELSE DictSet(store, mem[w].id, <<>>)
    /\ pc' = [pc EXCEPT ![w] = "append_loop"]
    /\ UNCHANGED <<lock, mem, gr, settings, oplog, ncalls>>

\* append_messages: one iteration of `for message in messages: history.append(message)`
AppendLoopYields(w) ==
    /\ pc[w] = "append_loop"
    /\ mem[w].msgs # <<>>
    /\ store' = DictSet(store, mem[w].id,
                        DequeAppend(Window(store, mem[w].id), Head(mem[w].msgs),
                                    MAX_HISTORY_MESSAGES))
    /\ mem' = [mem EXCEPT ![w].msgs = Tail(@)]
    /\ lock' = NoWorker
    /\ UNCHANGED <<pc, gr, settings, oplog, ncalls>>

AppendLoop(w) ==
    /\ pc[w] = "append_loop"
    /\ mem[w].msgs # <<>>
    /\ store' = DictSet(store, mem[w].id,
                        DequeAppend(Window(store, mem[w].id), Head(mem[w].msgs),
                                    MAX_HISTORY_MESSAGES))
    /\ mem' = [mem EXCEPT ![w].msgs = Tail(@)]
    /\ UNCHANGED <<lock, pc, gr, settings, oplog, ncalls>>

\* append_messages: the loop is exhausted
AppendDone(w) ==
    /\ pc[w] = "append_loop"
    /\ mem[w].msgs = <<>>
    /\ pc' = [pc EXCEPT ![w] = "release"]
    /\ UNCHANGED <<store, lock, mem, gr, settings, oplog, ncalls>>

\* clear: `self._store.pop(conversation_id, None)`
ClearPopAll(w) ==
    /\ pc[w] = "clear_pop"
    /\ store' = << >>
    /\ pc' = [pc EXCEPT ![w] = "release"]
    /\ UNCHANGED <<lock, mem, gr, settings, oplog, ncalls>>

ClearPop(w) ==
    /\ pc[w] = "clear_pop"
    /\ store' = DictPop(store, mem[w].id)
    /\ pc' = [pc EXCEPT ![w] = "release"]
    /\ UNCHANGED <<lock, mem, gr, settings, oplog, ncalls>>

\* leaving `with self._lock:`; the method returns to its caller
ReleaseKeepsLock(w) ==
    /\ pc[w] = "release"
    /\ pc' = [pc EXCEPT ![w] = mem[w].ret]
    /\ mem' = [mem EXCEPT ![w] = IF mem[w].ret = "idle" THEN NoMem ELSE @]
    /\ UNCHANGED <<store, lock, gr, settings, oplog, ncalls>>

Release(w) ==
    /\ pc[w] = "release"
    /\ lock' = NoWorker
    /\ pc' = [pc EXCEPT ![w] = mem[w].ret]
    /\ mem' = [mem EXCEPT ![w] = IF mem[w].ret = "idle" THEN NoMem ELSE @]
    /\ UNCHANGED <<store, gr, settings, oplog, ncalls>>

\* A step inside a ConversationMemory method
MemStep(w) ==
    \/ Acquire(w)
    \/ GetBody(w)
    \/ SetLoop(w)
    \/ SetStore(w)
    \/ AppendSetdefault(w)
    \/ AppendLoop(w)
    \/ AppendDone(w)
    \/ ClearPop(w)
    \/ Release(w)

-----------------------------------------------------------------------------
(* Threads calling the store directly *)

CallGetHistory(w, id) ==
    /\ pc[w] = "idle"
    /\ ncalls' = ncalls + 1
    /\ Invoke(w, "get_history", id, <<>>, "idle")
    /\ UNCHANGED <<store, lock, gr, settings, oplog>>

CallSetHistory(w, id, msgs) ==
    /\ pc[w] = "idle"
    /\ ncalls' = ncalls + 1
    /\ Invoke(w, "set_history", id, msgs, "idle")
    /\ UNCHANGED <<store, lock, gr, settings, oplog>>

CallAppendMessages(w, id, msgs) ==
    /\ pc[w] = "idle"
    /\ ncalls' = ncalls + 1
    /\ Invoke(w, "append_messages", id, msgs, "idle")
    /\ UNCHANGED <<store, lock, gr, settings, oplog>>

CallClear(w, id) ==
    /\ pc[w] = "idle"
    /\ ncalls' = ncalls + 1
    /\ Invoke(w, "clear", id, <<>>, "idle")
    /\ UNCHANGED <<store, lock, gr, settings, oplog>>

-----------------------------------------------------------------------------
(* LangChain messages and the model client's responses *)

\* Python truthiness of an Optional[str]
Truthy(s) == s # None /\ s # ""

\* Message content: a str, or a list of chunks (dicts and strs)
Str(s) == [kind |-> "str", text |-> s, chunks |-> <<>>]
List(chunks) == [kind |-> "list", text |-> "", chunks |-> chunks]
DictChunk(type, text) == [kind |-> "dict", type |-> type, text |-> text]
StrChunk(text) == [kind |-> "str", type |-> "", text |-> text]

LcMessage(type, content, tool_calls, name, tool_call_id) ==
    [type |-> type, content |-> content, tool_calls |-> tool_calls,
     name |-> name, tool_call_id |-> tool_call_id]

SystemMessage(content) == LcMessage("system", Str(content), <<>>, None, None)
HumanMessage(content) == LcMessage("human", Str(content), <<>>, None, None)
AIMessage(content) == LcMessage("ai", Str(content), <<>>, None, None)
ToolMessage(content, name, tool_call_id) ==
    LcMessage("tool", Str(content), <<>>, name, tool_call_id)

\* no message: the call raised
NoMessage == LcMessage("none", Str(""), <<>>, None, None)

SYSTEM_PROMPT == "You are MedAssist, a hospital front desk assistant."

\* "\n".join(parts)
RECURSIVE Join(_)
Join(parts) ==
    IF parts = <<>> THEN ""
    ELSE IF Len(parts) = 1 THEN parts[1]
    ELSE parts[1] \o "\n" \o Join(Tail(parts))

\* the chunks _stringify_content keeps: text dicts with a non-empty text, and strs
KeptChunk(chunk) ==
    \/ chunk.kind = "dict" /\ chunk.type = "text" /\ chunk.text # ""
    \/ chunk.kind = "str"

RECURSIVE TextParts(_)
TextParts(chunks) ==
    IF chunks = <<>> THEN <<>>
    ELSE IF KeptChunk(Head(chunks))
         THEN <<Head(chunks).text>> \o TextParts(Tail(chunks))
         ELSE TextParts(Tail(chunks))

\* GeminiChatService._stringify_content
stringify_content_FirstChunk(message) ==
    IF message.content.kind = "str" THEN message.content.text
    ELSE IF message.content.chunks = <<>> THEN ""
    ELSE Head(message.content.chunks).text

stringify_content(message) ==
    IF message.content.kind = "str" THEN message.content.text
    ELSE Join(TextParts(message.content.chunks))

\* GeminiChatService._map_history
RECURSIVE map_history(_)
map_history(history) ==
    IF history = <<>> THEN <<>>
    ELSE LET item == Head(history)
             rest == map_history(Tail(history))
         IN  IF item.role = "user" THEN <<HumanMessage(item.content)>> \o rest
             ELSE IF item.role = "assistant" THEN <<AIMessage(item.content)>> \o rest
             ELSE rest

\* Python's s[-n:]
SliceLastKeepsAll(s, n) == s

SliceLast(s, n) ==
    IF n = 0 \/ Len(s) <= n THEN s ELSE SubSeq(s, Len(s) - n + 1, Len(s))

-----------------------------------------------------------------------------
(* Specialty synonyms (app/tools/hospital_api.py).  A str is the sequence of
   its Unicode code points. *)

SPECIALTY_SYNONYMS ==
    <<
      \* "Cardiologist"
      [canonical |-> <<67, 97, 114, 100, 105, 111, 108, 111, 103, 105, 115, 116>>,
       aliases |-> <<
          <<99, 97, 114, 100, 105, 111, 108, 111, 103, 105, 115, 116>>,   \* "cardiologist"
          <<104, 101, 97, 114, 116, 32, 100, 111, 99, 116, 111, 114>>,   \* "heart doctor"
          <<104, 101, 97, 114, 116, 32, 115, 112, 101, 99, 105, 97, 108, 105, 115, 116>>,   \* "heart specialist"
          <<2361, 2371, 2342, 2351, 32, 2352, 2379, 2327, 32, 2357, 2367, 2358, 2375, 2359, 2332, 2381, 2334>>,   \* the alias of line 102
          <<2361, 2371, 2342, 2351, 2366, 2330, 2366, 32, 2337, 2377, 2325, 2381, 2335, 2352>>   \* the alias of line 103
       >>],
      \* "Dermatologist"
      [canonical |-> <<68, 101, 114, 109, 97, 116, 111, 108, 111, 103, 105, 115, 116>>,
       aliases |-> <<
          <<100, 101, 114, 109, 97, 116, 111, 108, 111, 103, 105, 115, 116>>,   \* "dermatologist"
          <<115, 107, 105, 110, 32, 100, 111, 99, 116, 111, 114>>,   \* "skin doctor"
          <<115, 107, 105, 110, 32, 115, 112, 101, 99, 105, 97, 108, 105, 115, 116>>,   \* "skin specialist"
          <<2340, 2381, 2357, 2330, 2366, 32, 2352, 2379, 2327, 32, 2357, 2367, 2358, 2375, 2359, 2332, 2381, 2334>>,   \* the alias of line 109
          <<2340, 2381, 2357, 2330, 2375, 2330, 2366, 32, 2337, 2377, 2325, 2381, 2335, 2352>>   \* the alias of line 110
       >>],
      \* "Gastroenterologist"
      [canonical |-> <<71, 97, 115, 116, 114, 111, 101, 110, 116, 101, 114, 111, 108, 111, 103, 105, 115, 116>>,
       aliases |-> <<
          <<103, 97, 115, 116, 114, 111, 101, 110, 116, 101, 114, 111, 108, 111, 103, 105, 115, 116>>,   \* "gastroenterologist"
          <<103, 97, 115, 116, 114, 111>>,   \* "gastro"
          <<115, 116, 111, 109, 97, 99, 104, 32, 100, 111, 99, 116, 111, 114>>,   \* "stomach doctor"
          <<100, 105, 103, 101, 115, 116, 105, 118, 101, 32, 100, 111, 99, 116, 111, 114>>,   \* "digestive doctor"
          <<2346, 2379, 2335, 2366, 2330, 2366, 32, 2337, 2377, 2325, 2381, 2335, 2352>>,   \* the alias of line 117
          <<2346, 2379, 2335, 2366, 2330, 2375, 32, 2337, 2377, 2325, 2381, 2335, 2352>>,   \* the alias of line 118
          <<2309, 2344, 2381, 2344, 2344, 2354, 2367, 2325, 2366, 32, 2357, 2367, 2358, 2375, 2359, 2332, 2381, 2334>>   \* the alias of line 119
       >>],
      \* "Pediatrician"
      [canonical |-> <<80, 101, 100, 105, 97, 116, 114, 105, 99, 105, 97, 110>>,
       aliases |-> <<
          <<112, 101, 100, 105, 97, 116, 114, 105, 99, 105, 97, 110>>,   \* "pediatrician"
          <<99, 104, 105, 108, 100, 32, 100, 111, 99, 116, 111, 114>>,   \* "child doctor"
          <<2348, 2366, 2354, 2352, 2379, 2327, 32, 2340, 2332, 2381, 2334>>,   \* the alias of line 124
          <<2348, 2366, 2355, 2366, 2306, 2330, 2366, 32, 2337, 2377, 2325, 2381, 2335, 2352>>   \* the alias of line 125
       >>],
      \* "Neurologist"
      [canonical |-> <<78, 101, 117, 114, 111, 108, 111, 103, 105, 115, 116>>,
       aliases |-> <<
          <<110, 101, 117, 114, 111, 108, 111, 103, 105, 115, 116>>,   \* "neurologist"
          <<98, 114, 97, 105, 110, 32, 100, 111, 99, 116, 111, 114>>,   \* "brain doctor"
          <<2344, 2381, 2351, 2370, 2352, 2379, 2354, 2377, 2332, 2367, 2360, 2381, 2335>>,   \* the alias of line 130
          <<2350, 2375, 2306, 2342, 2370, 2330, 2366, 32, 2337, 2377, 2325, 2381, 2335, 2352>>   \* the alias of line 131
       >>],
      \* "Orthopedic Surgeon"
      [canonical |-> <<79, 114, 116, 104, 111, 112, 101, 100, 105, 99, 32, 83, 117, 114, 103, 101, 111, 110>>,
       aliases |-> <<
          <<111, 114, 116, 104, 111, 112, 101, 100, 105, 99>>,   \* "orthopedic"
          <<98, 111, 110, 101, 32, 100, 111, 99, 116, 111, 114>>,   \* "bone doctor"
          <<2361, 2366, 2337, 2366, 2306, 2330, 2366, 32, 2337, 2377, 2325, 2381, 2335, 2352>>,   \* the alias of line 136
          <<2321, 2352, 2381, 2341, 2379, 2346, 2375, 2337, 2367, 2325>>   \* the alias of line 137
       >>]
    >>

\* str.lower(), on the letters A-Z and on caseless scripts
Lower(s) == [i \in 1..Len(s) |-> IF s[i] \in 65..90 THEN s[i] + 32 ELSE s[i]]

\* the whitespace str.strip() removes
IsSpace(ch) == ch \in {9, 10, 11, 12, 13, 32}

RECURSIVE LStrip(_)
LStrip(s) == IF s # <<>> /\ IsSpace(Head(s)) THEN LStrip(Tail(s)) ELSE s

RECURSIVE RStrip(_)
RStrip(s) ==
    IF s # <<>> /\ IsSpace(s[Len(s)]) THEN RStrip(SubSeq(s, 1, Len(s) - 1)) ELSE s

\* str.strip()
Strip(s) == RStrip(LStrip(s))

\* the items of one canonical label: (alias.lower(), canonical)
AliasItems(entry) ==
    [i \in 1..Len(entry.aliases) |->
        [alias |-> Lower(entry.aliases[i]), canonical |-> entry.canonical]]

RECURSIVE AliasItemsFrom(_)
AliasItemsFrom(entries) ==
    IF entries = <<>> THEN <<>>
    ELSE AliasItems(Head(entries)) \o AliasItemsFrom(Tail(entries))

\* the dict ALIAS_TO_SPECIALTY, as its items in insertion order (no alias
\* occurs twice in SPECIALTY_SYNONYMS)
ALIAS_TO_SPECIALTY == AliasItemsFrom(SPECIALTY_SYNONYMS)

\* `cleaned in ALIAS_TO_SPECIALTY`
IsAlias(cleaned) ==
    \E k \in 1..Len(ALIAS_TO_SPECIALTY) : ALIAS_TO_SPECIALTY[k].alias = cleaned

\* ALIAS_TO_SPECIALTY[alias]
Canonical(alias) ==
    LET k == CHOOSE k \in 1..Len(ALIAS_TO_SPECIALTY) :
                ALIAS_TO_SPECIALTY[k].alias = alias
    IN  ALIAS_TO_SPECIALTY[k].canonical

\* Python's `x < y` on str: lexicographic on code points
RECURSIVE StrLess(_, _)
StrLess(x, y) ==
    IF y = <<>> THEN FALSE
    ELSE IF x = <<>> THEN TRUE
    ELSE IF Head(x) # Head(y) THEN Head(x) < Head(y)
    ELSE StrLess(Tail(x), Tail(y))

\* Python's `sub in s` on str
Contains(s, sub) ==
    \E i \in 0..(Len(s) - Len(sub)) : SubSeq(s, i + 1, i + Len(sub)) = sub

MinOf(S) == CHOOSE x \in S : \A y \in S : x <= y
MaxOf(S) == CHOOSE x \in S : \A y \in S : y <= x

\* difflib.SequenceMatcher (no junk; autojunk needs 200 or more elements)

\* the length of the common run of a[i..ahi] and b[j..bhi]
RECURSIVE RunLen(_, _, _, _, _, _)
RunLen(a, b, i, j, ahi, bhi) ==
    IF i > ahi \/ j > bhi THEN 0
    ELSE IF a[i] # b[j] THEN 0
    ELSE 1 + RunLen(a, b, i + 1, j + 1, ahi, bhi)

\* find_longest_match: the longest matching block of a[alo..ahi] and
\* b[blo..bhi]; of those, the one starting earliest in a, then earliest in b

\* the size of the longest matching block
LongestSize(a, b, alo, ahi, blo, bhi) ==
    MaxOf({RunLen(a, b, i, j, ahi, bhi) : i \in alo..ahi, j \in blo..bhi})

\* the earliest start in a of a matching block of that size
EarliestInA(a, b, alo, ahi, blo, bhi, size) ==
    MinOf({i \in alo..ahi : \E j \in blo..bhi : RunLen(a, b, i, j, ahi, bhi) = size})

\* the earliest start in b of a matching block of that size starting at besti
EarliestInB(a, b, besti, ahi, blo, bhi, size) ==
    MinOf({j \in blo..bhi : RunLen(a, b, besti, j, ahi, bhi) = size})

BlockAt(a, b, besti, ahi, blo, bhi, size) ==
    [i |-> besti, j |-> EarliestInB(a, b, besti, ahi, blo, bhi, size), size |-> size]

BlockOfSize(a, b, alo, ahi, blo, bhi, size) ==
    IF size = 0 THEN [i |-> alo, j |-> blo, size |-> 0]
    ELSE BlockAt(a, b, EarliestInA(a, b, alo, ahi, blo, bhi, size),
                 ahi, blo, bhi, size)

find_longest_match(a, b, alo, ahi, blo, bhi) ==
    BlockOfSize(a, b, alo, ahi, blo, bhi, LongestSize(a, b, alo, ahi, blo, bhi))

\* get_matching_blocks: the total size of the matching blocks of a[alo..ahi]
\* and b[blo..bhi]: the longest block m, then the blocks left and right of it
RECURSIVE MatchingSize(_, _, _, _, _, _)
RECURSIVE MatchingAround(_, _, _, _, _, _, _)
MatchingAround(a, b, alo, ahi, blo, bhi, m) ==
    IF m.size = 0 THEN 0
    ELSE m.size
         + MatchingSize(a, b, alo, m.i - 1, blo, m.j - 1)
         + MatchingSize(a, b, m.i + m.size, ahi, m.j + m.size, bhi)

MatchingSize(a, b, alo, ahi, blo, bhi) ==
    IF alo > ahi \/ blo > bhi THEN 0
    ELSE MatchingAround(a, b, alo, ahi, blo, bhi,
                        find_longest_match(a, b, alo, ahi, blo, bhi))

\* _calculate_ratio: 2.0 * matches / length, 1.0 for length 0, as a fraction
calculate_ratio(matches, length) ==
    IF length = 0 THEN [num |-> 1, den |-> 1]
    ELSE [num |-> 2 * matches, den |-> length]

ratio(a, b) ==
    calculate_ratio(MatchingSize(a, b, 1, Len(a), 1, Len(b)), Len(a) + Len(b))

\* how often elt occurs in s
Count(s, elt) == Cardinality({i \in 1..Len(s) : s[i] = elt})

\* the sum of f over the set S
RECURSIVE SumOver(_, _)
SumOver(f, S) ==
    IF S = {} THEN 0
    ELSE LET e == CHOOSE e \in S : TRUE
         IN  f[e] + SumOver(f, S \ {e})

\* quick_ratio: the elements a and b share, as multisets
quick_ratio(a, b) ==
    LET elts == {a[i] : i \in 1..Len(a)}
        shared == [e \in elts |->
                      IF Count(a, e) < Count(b, e) THEN Count(a, e) ELSE Count(b, e)]
    IN  calculate_ratio(SumOver(shared, elts), Len(a) + Len(b))

real_quick_ratio(a, b) ==
    calculate_ratio(IF Len(a) < Len(b) THEN Len(a) ELSE Len(b), Len(a) + Len(b))

\* `r >= cutoff` for cutoff=0.75
AtLeastCutoff(r) == 4 * r.num >= 3 * r.den

\* (score, x) < (score', y) on the tuples get_close_matches ranks
ScoredLess(p, q) ==
    \/ p.score.num * q.score.den < q.score.num * p.score.den
    \/ /\ p.score.num * q.score.den = q.score.num * p.score.den
       /\ StrLess(p.x, q.x)

\* _nlargest(1, result): the list of the largest (score, x), or the empty list
Largest(result) ==
    IF result = {} THEN <<>>
    ELSE <<(CHOOSE p \in result : \A q \in result : ~ScoredLess(p, q)).x>>

\* the possibilities whose ratio to word reaches the cutoff, with their scores
CloseMatches(word, possibilities) ==
    {p \in {[score |-> ratio(possibilities[k], word), x |-> possibilities[k]] :
               k \in {k \in 1..Len(possibilities) :
                         /\ AtLeastCutoff(real_quick_ratio(possibilities[k], word))
                         /\ AtLeastCutoff(quick_ratio(possibilities[k], word))}} :
        AtLeastCutoff(p.score)}

\* get_close_matches(word, possibilities, n=1, cutoff=0.75): the list of the
\* best match, or the empty list
get_close_matches(word, possibilities) ==
    Largest(CloseMatches(word, possibilities))

\* ALIAS_TO_SPECIALTY.keys()
AliasKeys == [k \in 1..Len(ALIAS_TO_SPECIALTY) |-> ALIAS_TO_SPECIALTY[k].alias]

\* the aliases (as positions in the dict) that occur in cleaned
AliasesIn(cleaned) ==
    {k \in 1..Len(ALIAS_TO_SPECIALTY) : Contains(cleaned, ALIAS_TO_SPECIALTY[k].alias)}

\* lines 171-175: the canonical label of the first alias found in cleaned,
\* else the query as given
SubstringOrPassthrough(raw_query, containing) ==
    IF containing # {} THEN ALIAS_TO_SPECIALTY[MinOf(containing)].canonical
    ELSE raw_query

\* lines 168-169: the canonical label of the close match, if there is one
CloseMatchOr(close_match, otherwise) ==
    IF close_match # <<>> THEN Canonical(close_match[1]) ELSE otherwise

\* lines 159-175, with cleaned = raw_query.strip().lower()
NormalizeCleanedSubstringFirst(raw_query, cleaned) ==
    IF cleaned = <<>> THEN raw_query
    ELSE IF IsAlias(cleaned) THEN Canonical(cleaned)
    ELSE SubstringOrPassthrough(
            CloseMatchOr(get_close_matches(cleaned, AliasKeys), raw_query),
            AliasesIn(cleaned))

NormalizeCleaned(raw_query, cleaned) ==
    IF cleaned = <<>> THEN raw_query
    ELSE IF IsAlias(cleaned) THEN Canonical(cleaned)
    ELSE CloseMatchOr(get_close_matches(cleaned, AliasKeys),
                      SubstringOrPassthrough(raw_query, AliasesIn(cleaned)))

\* normalize_specialty_query
normalize_specialty_query(raw_query) ==
    IF raw_query = <<>> THEN raw_query
    ELSE NormalizeCleaned(raw_query, Lower(Strip(raw_query)))

-----------------------------------------------------------------------------
(* The tool registry *)

\* get_hospital_tools(): the names of the registered tools
ToolNames == {"search_doctors", "doctor_weekly_availability",
              "appointments_by_phone", "book_appointment"}

\* the arguments of a tool invocation request, as far as dispatch reads them:
\* `complete`: every required field is present and well typed
ToolArgs(complete, query, page, limit, client_id) ==
    [complete |-> complete, query |-> query, page |-> page, limit |-> limit,
     client_id |-> client_id]

\* no arguments: the record of a model call carries none
NoArgs == ToolArgs(FALSE, <<>>, 0, 0, None)

\* args_schema validation of StructuredTool.invoke (pydantic)
SchemaAccepts(tool_name, tool_args) ==
    /\ tool_args.complete
    /\ tool_name = "appointments_by_phone" =>
          /\ tool_args.page >= 1
          /\ tool_args.limit >= 1
          /\ tool_args.limit <= 50

\* HospitalAPIClient._request: the outcome of the remote call
RequestOutcome(tool_name, remote) ==
    CASE remote = "ok" ->
            [raised |-> FALSE, value |-> tool_name \o " result"]
      [] remote = "status_error" ->
            [raised |-> TRUE, value |-> "Hospital API error 500"]
      [] remote = "transport_error" ->
            [raised |-> TRUE, value |-> "Hospital API request failed"]

\* no request reached the remote API
NoRequestSent == [made |-> FALSE, query |-> <<>>, limit |-> 0, client_id |-> None]

\* HospitalAPIClient.appointments_by_phone: max(1, min(limit, 50))
safe_limit(limit) ==
    LET capped == IF limit < 50 THEN limit ELSE 50
    IN  IF capped > 1 THEN capped ELSE 1

\* what the tool function sends to the remote API: the normalized query of
\* search_doctors_tool, the limit of appointments_by_phone, the
\* resolved_client_id of book_appointment_tool
RemoteRequest(tool_name, tool_args) ==
    [made |-> TRUE,
     query |-> IF tool_name = "search_doctors"
               THEN normalize_specialty_query(tool_args.query) ELSE <<>>,
     limit |-> IF tool_name = "appointments_by_phone"
               THEN safe_limit(tool_args.limit) ELSE 0,
     client_id |-> IF tool_name # "book_appointment" THEN None
                   ELSE IF Truthy(tool_args.client_id) THEN tool_args.client_id
                   ELSE settings.hospital_client_id]

\* tool.invoke(tool_args): validation, then the tool function
ToolInvoke(tool_name, tool_args, remote) ==
    IF ~SchemaAccepts(tool_name, tool_args)
    THEN [raised |-> TRUE, value |-> "validation error", sent |-> NoRequestSent]
    ELSE IF /\ tool_name = "book_appointment"
            /\ ~Truthy(tool_args.client_id)
            /\ ~Truthy(settings.hospital_client_id)
    THEN [raised |-> TRUE, value |-> "Missing HOSPITAL_CLIENT_ID",
          sent |-> NoRequestSent]
    ELSE [raised |-> RequestOutcome(tool_name, remote).raised,
          value |-> RequestOutcome(tool_name, remote).value,
          sent |-> RemoteRequest(tool_name, tool_args)]

\* GeminiChatService._call_tool
\* returns [raised, message, exc, sent]: whether _call_tool itself raises, the
\* ToolMessage it returns, the exception tool.invoke ended with (or None),
\* and the request the tool sent to the remote API
call_tool_UnknownRaises(tool_name, tool_args, tool_call_id, remote) ==
    IF tool_name \notin ToolNames
    THEN [raised |-> TRUE, message |-> NoMessage, exc |-> "KeyError",
          sent |-> NoRequestSent]
    ELSE LET r == ToolInvoke(tool_name, tool_args, remote)
             result == IF r.raised
                       THEN "Tool '" \o tool_name \o "' failed: " \o r.value
                       ELSE r.value
         IN  [raised |-> FALSE,
              message |-> ToolMessage(result, tool_name, tool_call_id),
              exc |-> IF r.raised THEN r.value ELSE None,
              sent |-> r.sent]

call_tool_Propagating(tool_name, tool_args, tool_call_id, remote) ==
    IF tool_name \notin ToolNames
    THEN [raised |-> FALSE,
          message |-> ToolMessage("Requested tool '" \o tool_name
                                     \o "' is not available.",
                                  tool_name, tool_call_id),
          exc |-> None, sent |-> NoRequestSent]
    ELSE LET r == ToolInvoke(tool_name, tool_args, remote)
         IN  [raised |-> r.raised,
              message |-> IF r.raised THEN NoMessage
                          ELSE ToolMessage(r.value, tool_name, tool_call_id),
              exc |-> IF r.raised THEN r.value ELSE None,
              sent |-> r.sent]

call_tool(tool_name, tool_args, tool_call_id, remote) ==
    IF tool_name \notin ToolNames
    THEN [raised |-> FALSE,
          message |-> ToolMessage("Requested tool '" \o tool_name
                                     \o "' is not available.",
                                  tool_name, tool_call_id),
          exc |-> None, sent |-> NoRequestSent]
    ELSE LET r == ToolInvoke(tool_name, tool_args, remote)
             result == IF r.raised
                       THEN "Tool '" \o tool_name \o "' failed: " \o r.value
                       ELSE r.value
         IN  [raised |-> FALSE,
              message |-> ToolMessage(result, tool_name, tool_call_id),
              exc |-> IF r.raised THEN r.value ELSE None,
              sent |-> r.sent]

-----------------------------------------------------------------------------
(* GeminiChatService.generate_reply *)

\* the effective conversation identifier
EffectiveIdDefaults(conversation_id, history) ==
    IF Truthy(conversation_id) THEN conversation_id
    ELSE DEFAULT_CONVERSATION_ID

EffectiveIdEphemeral(conversation_id, history) ==
    IF Truthy(conversation_id) THEN conversation_id ELSE None

EffectiveIdOfSupplied(conversation_id, history) ==
    IF conversation_id # None THEN conversation_id
    ELSE IF history = <<>> THEN DEFAULT_CONVERSATION_ID
    ELSE None

EffectiveId(conversation_id, history) ==
    IF Truthy(conversation_id) THEN conversation_id
    ELSE IF history = <<>> THEN DEFAULT_CONVERSATION_ID
    ELSE None

\* the trace of a request: one record per model call and per tool dispatch,
\* with what it returned (`out`) or the exception it ended with (`exc`)
Called(kind, name, id, out, exc) ==
    [kind |-> kind, name |-> name, id |-> id, out |-> out, exc |-> exc,
     args |-> NoArgs, sent |-> NoRequestSent]

\* the record of `self._call_tool(tool_name, tool_args, tool_call_id)`, with
\* the arguments passed and the request the tool sent to the remote API
Dispatched(call, r) ==
    [Called("call_tool", call.name, call.id, r.message, r.exc)
        EXCEPT !.args = call.args, !.sent = r.sent]

\* entry: resolve the identifier and branch on it
GenerateReply(w, user_message, history, conversation_id) ==
    /\ pc[w] = "idle"
    /\ ncalls' = ncalls + 1
    /\ LET effective_id == EffectiveId(conversation_id, history)
       IN  /\ gr' = [gr EXCEPT ![w] =
                       [active |-> TRUE,
                        user_message |-> user_message,
                        history |-> history,
                        conversation_id |-> conversation_id,
                        effective_id |-> effective_id,
                        conversation |-> <<>>,
                        iteration |-> 0,
                        tool_calls |-> <<>>,
                        reply_text |-> None,
                        calls |-> <<>>]]
           /\ pc' = [pc EXCEPT ![w] =
                       IF Truthy(effective_id)
                       THEN IF history # <<>> THEN "gr_set" ELSE "gr_get"
                       ELSE "gr_build"]
    /\ UNCHANGED <<store, lock, mem, settings, oplog>>

\* `self._memory.set_history(effective_id, history)`
GrSetHistory(w) ==
    /\ pc[w] = "gr_set"
    /\ Invoke(w, "set_history", gr[w].effective_id, gr[w].history, "gr_get")
    /\ UNCHANGED <<store, lock, gr, settings, oplog, ncalls>>

\* `history_source = self._memory.get_history(effective_id)`
GrGetHistory(w) ==
    /\ pc[w] = "gr_get"
    /\ Invoke(w, "get_history", gr[w].effective_id, <<>>, "gr_got")
    /\ UNCHANGED <<store, lock, gr, settings, oplog, ncalls>>

\* the context of the first model call
InitialConversation(history_source, user_message) ==
    <<SystemMessage(SYSTEM_PROMPT)>>
        \o map_history(SliceLast(history_source, MAX_HISTORY_MESSAGES))
        \o <<HumanMessage(user_message)>>

\* trimmed_history, lc_history and conversation are built
GrBuild(w) ==
    /\ pc[w] \in {"gr_got", "gr_build"}
    /\ LET history_source == IF pc[w] = "gr_got" THEN mem[w].result
                             ELSE gr[w].history
       IN  gr' = [gr EXCEPT ![w].conversation =
                     InitialConversation(history_source, gr[w].user_message)]
    /\ mem' = [mem EXCEPT ![w] = NoMem]
    /\ pc' = [pc EXCEPT ![w] = "gr_loop"]
    /\ UNCHANGED <<store, lock, settings, oplog, ncalls>>

\* `for _ in range(self._max_tool_iterations)`: another iteration is due
LoopContinuesOneMore(iteration) == iteration <= max_tool_iterations

LoopContinues(iteration) == iteration < max_tool_iterations

\* the tool invocation requests of a response, with their correlation ids
WithIds(tool_calls, iteration) ==
    [i \in 1..Len(tool_calls) |->
        [name |-> tool_calls[i].name, args |-> tool_calls[i].args,
         id |-> "call_" \o ToString(iteration + 1) \o "_" \o ToString(i)]]

\* `response = self._llm_with_tools.invoke(conversation)` returns
LlmWithToolsInvoke(w, content, tool_calls) ==
    /\ pc[w] = "gr_loop"
    /\ LoopContinues(gr[w].iteration)
    /\ LET calls == WithIds(tool_calls, gr[w].iteration)
           response == LcMessage("ai", content, calls, None, None)
       IN  /\ gr' = [gr EXCEPT
                       ![w].conversation = Append(@, response),
                       ![w].tool_calls = calls,
                       ![w].reply_text =
                           IF calls = <<>> THEN stringify_content(response) ELSE @,
                       ![w].calls = Append(@, Called("llm_with_tools", None, None,
                                                     response, None))]
           /\ pc' = [pc EXCEPT ![w] = IF calls = <<>> THEN "gr_after" ELSE "gr_tools"]
    /\ UNCHANGED <<store, lock, mem, settings, oplog, ncalls>>

\* `self._llm_with_tools.invoke(conversation)` raises
LlmWithToolsRaisesRecovered(w) ==
    /\ pc[w] = "gr_loop"
    /\ LoopContinues(gr[w].iteration)
    /\ gr' = [gr EXCEPT ![w].calls = Append(@, Called("llm_with_tools", None, None,
                                                     NoMessage, "model error")),
                        ![w].reply_text = "model error"]
    /\ pc' = [pc EXCEPT ![w] = "gr_after"]
    /\ UNCHANGED <<store, lock, mem, settings, oplog, ncalls>>

LlmWithToolsRaises(w) ==
    /\ pc[w] = "gr_loop"
    /\ LoopContinues(gr[w].iteration)
    /\ gr' = [gr EXCEPT ![w].calls = Append(@, Called("llm_with_tools", None, None,
                                                     NoMessage, "model error"))]
    /\ pc' = [pc EXCEPT ![w] = "gr_raised"]
    /\ UNCHANGED <<store, lock, mem, settings, oplog, ncalls>>

\* the for loop is exhausted
LoopExhausted(w) ==
    /\ pc[w] = "gr_loop"
    /\ ~LoopContinues(gr[w].iteration)
    /\ pc' = [pc EXCEPT ![w] = "gr_after"]
    /\ UNCHANGED <<store, lock, mem, gr, settings, oplog, ncalls>>

\* one iteration of `for call in tool_calls`
CallToolRetries(w, remote) ==
    /\ pc[w] = "gr_tools"
    /\ gr[w].tool_calls # <<>>
    /\ LET call == Head(gr[w].tool_calls)
           r == call_tool(call.name, call.args, call.id, remote)
       IN  /\ gr' = [gr EXCEPT
                       ![w].conversation = Append(@, r.message),
                       ![w].tool_calls = IF r.exc # None /\ Len(gr[w].calls) < 12
                                         THEN @ ELSE Tail(@),
                       ![w].calls = Append(@, Dispatched(call, r))]
           /\ pc' = pc
    /\ UNCHANGED <<store, lock, mem, settings, oplog, ncalls>>

CallTool(w, remote) ==
    /\ pc[w] = "gr_tools"
    /\ gr[w].tool_calls # <<>>
    /\ LET call == Head(gr[w].tool_calls)
           r == call_tool(call.name, call.args, call.id, remote)
       IN  /\ gr' = [gr EXCEPT
                       ![w].conversation =
                           IF r.raised THEN @ ELSE Append(@, r.message),
                       ![w].tool_calls = Tail(@),
                       ![w].calls = Append(@, Dispatched(call, r))]
           /\ pc' = [pc EXCEPT ![w] = IF r.raised THEN "gr_raised" ELSE @]
    /\ UNCHANGED <<store, lock, mem, settings, oplog, ncalls>>

\* every requested tool ran: the next iteration of the for loop
ToolsDone(w) ==
    /\ pc[w] = "gr_tools"
    /\ gr[w].tool_calls = <<>>
    /\ gr' = [gr EXCEPT ![w].iteration = @ + 1]
    /\ pc' = [pc EXCEPT ![w] = "gr_loop"]
    /\ UNCHANGED <<store, lock, mem, settings, oplog, ncalls>>

\* `if reply_text is None:`
NeedsFinalCallAlways(reply_text) == TRUE

NeedsFinalCall(reply_text) == reply_text = None

\* `final_response = self._llm.invoke(conversation)` returns
FinalLlmInvoke(w, content) ==
    /\ pc[w] = "gr_after"
    /\ NeedsFinalCall(gr[w].reply_text)
    /\ LET final_response == LcMessage("ai", content, <<>>, None, None)
       IN  gr' = [gr EXCEPT
                    ![w].reply_text = stringify_content(final_response),
                    ![w].calls = Append(@, Called("llm", None, None,
                                                  final_response, None))]
    /\ pc' = [pc EXCEPT ![w] = "gr_persist"]
    /\ UNCHANGED <<store, lock, mem, settings, oplog, ncalls>>

\* `self._llm.invoke(conversation)` raises
FinalLlmRaises(w) ==
    /\ pc[w] = "gr_after"
    /\ NeedsFinalCall(gr[w].reply_text)
    /\ gr' = [gr EXCEPT ![w].calls = Append(@, Called("llm", None, None,
                                                     NoMessage, "model error"))]
    /\ pc' = [pc EXCEPT ![w] = "gr_raised"]
    /\ UNCHANGED <<store, lock, mem, settings, oplog, ncalls>>

\* the reply is already known: no final call
SkipFinalCall(w) ==
    /\ pc[w] = "gr_after"
    /\ ~NeedsFinalCall(gr[w].reply_text)
    /\ pc' = [pc EXCEPT ![w] = "gr_persist"]
    /\ UNCHANGED <<store, lock, mem, gr, settings, oplog, ncalls>>

\* `self._memory.append_messages(effective_id, [user turn, assistant turn])`
GrAppendMessagesWithContext(w) ==
    /\ pc[w] = "gr_persist"
    /\ Truthy(gr[w].effective_id)
    /\ LET conv == gr[w].conversation
           last == conv[Len(conv)]
       IN  Invoke(w, "append_messages", gr[w].effective_id,
                  <<Message("user", gr[w].user_message)>>
                     \o (IF last.type = "tool"
                         THEN <<Message("assistant", last.content.text)>> ELSE <<>>)
                     \o <<Message("assistant", gr[w].reply_text)>>,
                  "gr_return")
    /\ UNCHANGED <<store, lock, gr, settings, oplog, ncalls>>

GrAppendMessages(w) ==
    /\ pc[w] = "gr_persist"
    /\ Truthy(gr[w].effective_id)
    /\ Invoke(w, "append_messages", gr[w].effective_id,
              <<Message("user", gr[w].user_message),
                Message("assistant", gr[w].reply_text)>>,
              "gr_return")
    /\ UNCHANGED <<store, lock, gr, settings, oplog, ncalls>>

\* an ephemeral request persists nothing
GrSkipPersist(w) ==
    /\ pc[w] = "gr_persist"
    /\ ~Truthy(gr[w].effective_id)
    /\ pc' = [pc EXCEPT ![w] = "gr_return"]
    /\ UNCHANGED <<store, lock, mem, gr, settings, oplog, ncalls>>

\* `return reply_text`: chat_endpoint answers ChatResponse(reply=reply)
Return(w) ==
    /\ pc[w] = "gr_return"
    /\ pc' = [pc EXCEPT ![w] = "idle"]
    /\ gr' = [gr EXCEPT ![w] = NoRequest]
    /\ mem' = [mem EXCEPT ![w] = NoMem]
    /\ UNCHANGED <<store, lock, settings, oplog, ncalls>>

\* the exception leaves generate_reply: chat_endpoint answers an HTTP error
Propagate(w) ==
    /\ pc[w] = "gr_raised"
    /\ pc' = [pc EXCEPT ![w] = "idle"]
    /\ gr' = [gr EXCEPT ![w] = NoRequest]
    /\ UNCHANGED <<store, lock, mem, settings, oplog, ncalls>>

\* A step of generate_reply that consumes no input
GrStep(w) ==
    \/ GrSetHistory(w)
    \/ GrGetHistory(w)
    \/ GrBuild(w)
    \/ LoopExhausted(w)
    \/ ToolsDone(w)
    \/ SkipFinalCall(w)
    \/ GrAppendMessages(w)
    \/ GrSkipPersist(w)
    \/ Return(w)
    \/ Propagate(w)

-----------------------------------------------------------------------------
(* The store exercised directly by concurrent threads *)

Init ==
    /\ store = << >>
    /\ lock = NoWorker
    /\ pc = [w \in Workers |-> "idle"]
    /\ mem = [w \in Workers |-> NoMem]
    /\ gr = [w \in Workers |-> NoRequest]
    /\ settings = [hospital_client_id |-> "444d9283-88fa-4320-a084-1adb97085d41"]
    /\ oplog = [id \in StoreIds |-> <<>>]
    /\ ncalls = 0

SetSizes == {1, MaxPayload}
AppendSizes == {3}

NextStore ==
    \/ \E w \in Workers : MemStep(w)
    \/ \E w \in Workers, id \in StoreIds :
          ncalls < MaxCalls /\ CallGetHistory(w, id)
    \/ \E w \in Workers, id \in StoreIds, n \in SetSizes :
          ncalls < MaxCalls /\ CallSetHistory(w, id, Payload(w, n))
    \/ \E w \in Workers, id \in StoreIds, n \in AppendSizes :
          ncalls < MaxCalls /\ CallAppendMessages(w, id, Payload(w, n))
    \/ \E w \in Workers, id \in StoreIds :
          ncalls < MaxCalls /\ CallClear(w, id)

SpecStore == Init /\ [][NextStore]_vars

-----------------------------------------------------------------------------
(* One chat request at a time, with every behaviour of the model client and
   of the remote API *)

MaxRequests == 2       \* chat requests started in one behaviour

LoopWorkers == {"w1"}

\* what a caller sends as conversation_id, and the lengths of its inline history
CallerIds == {None, "", "c1"}
HistorySizes == {0, 3, MaxPayload}

\* contents of a model response without tool invocation requests
TextContents ==
    { Str("r1"),
      List(<<DictChunk("text", "r2a"), DictChunk("image_url", "x"),
             DictChunk("text", ""), StrChunk("r2b")>>) }

\* a specialty query: "heart doctor"
HeartDoctor == <<104, 101, 97, 114, 116, 32, 100, 111, 99, 116, 111, 114>>

\* the tool invocation requests of a model response
ToolCallLists ==
    { <<[name |-> "lookup_insurance", args |-> ToolArgs(TRUE, HeartDoctor, 1, 10, None)]>>,
      <<[name |-> "search_doctors", args |-> ToolArgs(TRUE, HeartDoctor, 1, 10, None)],
        [name |-> "appointments_by_phone", args |-> ToolArgs(TRUE, HeartDoctor, 1, 999, None)]>> }

Remotes == {"ok", "status_error", "transport_error"}

Next ==
    \/ \E w \in LoopWorkers, n \in HistorySizes, cid \in CallerIds :
          /\ ncalls < MaxRequests
          /\ GenerateReply(w, "u" \o ToString(ncalls + 1), Payload("h", n), cid)
    \/ \E w \in LoopWorkers : GrStep(w)
    \/ \E w \in LoopWorkers :
          \/ Acquire(w)
          \/ GetBody(w)
          \/ SetLoop(w)
          \/ SetStore(w)
          \/ AppendSetdefault(w)
          \/ AppendLoop(w)
          \/ AppendDone(w)
          \/ Release(w)
    \/ \E w \in LoopWorkers, content \in TextContents :
          LlmWithToolsInvoke(w, content, <<>>)
    \/ \E w \in LoopWorkers, tool_calls \in ToolCallLists :
          LlmWithToolsInvoke(w, Str(""), tool_calls)
    \/ \E w \in LoopWorkers : LlmWithToolsRaises(w)
    \/ \E w \in LoopWorkers, remote \in Remotes : CallTool(w, remote)
    \/ \E w \in LoopWorkers, content \in TextContents : FinalLlmInvoke(w, content)
    \/ \E w \in LoopWorkers : FinalLlmRaises(w)

Spec == Init /\ [][Next]_vars

\* what a worker does once its request is accepted: every model call and tool
\* call returns or raises, and the thread keeps running
Progress(w) ==
    \/ GrStep(w)
    \/ MemStep(w)
    \/ \E content \in TextContents : LlmWithToolsInvoke(w, content, <<>>)
    \/ \E tool_calls \in ToolCallLists : LlmWithToolsInvoke(w, Str(""), tool_calls)
    \/ LlmWithToolsRaises(w)
    \/ \E remote \in Remotes : CallTool(w, remote)
    \/ \E content \in TextContents : FinalLlmInvoke(w, content)
    \/ FinalLlmRaises(w)

FairSpec == Spec /\ \A w \in LoopWorkers : WF_vars(Progress(w))

-----------------------------------------------------------------------------
(* Concurrent chat requests and direct store calls on the thread pool *)

MaxConcCalls == 2     \* top-level calls started in one behaviour

ConcCallerIds == {None, "c1"}
ConcHistorySizes == {0, MaxPayload}
ConcAppendSizes == {3}
ConcToolCalls ==
    <<[name |-> "lookup_insurance", args |-> ToolArgs(TRUE, HeartDoctor, 1, 10, None)]>>

NextConc ==
    \/ \E w \in Workers, n \in ConcHistorySizes, cid \in ConcCallerIds :
          /\ ncalls < MaxConcCalls
          /\ GenerateReply(w, "u@" \o w, Payload("h@" \o w, n), cid)
    \/ \E w \in Workers, n \in ConcHistorySizes :
          ncalls < MaxConcCalls /\ CallSetHistory(w, "c1", Payload(w, n))
    \/ \E w \in Workers, n \in ConcAppendSizes :
          ncalls < MaxConcCalls /\ CallAppendMessages(w, "c1", Payload(w, n))
    \/ \E w \in Workers : ncalls < MaxConcCalls /\ CallClear(w, "c1")
    \/ \E w \in Workers : GrStep(w)
    \/ \E w \in Workers : MemStep(w)
    \/ \E w \in Workers : LlmWithToolsInvoke(w, Str("r1"), <<>>)
    \/ \E w \in Workers : LlmWithToolsInvoke(w, Str(""), ConcToolCalls)
    \/ \E w \in Workers : LlmWithToolsRaises(w)
    \/ \E w \in Workers : CallTool(w, "ok")
    \/ \E w \in Workers : FinalLlmInvoke(w, Str("r1"))
    \/ \E w \in Workers : FinalLlmRaises(w)

SpecConc == Init /\ [][NextConc]_vars

\* Concurrent chat requests only: every store call is made by generate_reply
NextRequests ==
    \/ \E w \in Workers, n \in ConcHistorySizes, cid \in ConcCallerIds :
          /\ ncalls < MaxConcCalls
          /\ GenerateReply(w, "u@" \o w, Payload("h@" \o w, n), cid)
    \/ \E w \in Workers : GrStep(w)
    \/ \E w \in Workers :
          \/ Acquire(w)
          \/ GetBody(w)
          \/ SetLoop(w)
          \/ SetStore(w)
          \/ AppendSetdefault(w)
          \/ AppendLoop(w)
          \/ AppendDone(w)
          \/ Release(w)
    \/ \E w \in Workers : LlmWithToolsInvoke(w, Str("r1"), <<>>)
    \/ \E w \in Workers : LlmWithToolsInvoke(w, Str(""), ConcToolCalls)
    \/ \E w \in Workers : LlmWithToolsRaises(w)
    \/ \E w \in Workers : CallTool(w, "ok")
    \/ \E w \in Workers : FinalLlmInvoke(w, Str("r1"))
    \/ \E w \in Workers : FinalLlmRaises(w)

SpecRequests == Init /\ [][NextRequests]_vars

\* a thread at a ConversationMemory statement keeps running: the locked
\* regions hold no blocking operation.  Nothing is assumed of the model
\* client and of the tools: a model call or a tool call may never return
StoreProgress(w) ==
    \/ Acquire(w)
    \/ GetBody(w)
    \/ SetLoop(w)
    \/ SetStore(w)
    \/ AppendSetdefault(w)
    \/ AppendLoop(w)
    \/ AppendDone(w)
    \/ Release(w)

FairRequests == SpecRequests /\ \A w \in Workers : WF_vars(StoreProgress(w))

-----------------------------------------------------------------------------
(* One chat request on the default session, with every tool invocation the
   model client may request *)

MaxToolRequests == 1   \* chat requests started in one behaviour

\* the steps of a request without identifier and without inline history that
\* take no input
DefaultSessionStep(w) ==
    \/ GrGetHistory(w)
    \/ Acquire(w)
    \/ GetBody(w)
    \/ Release(w)
    \/ GrBuild(w)
    \/ ToolsDone(w)
    \/ LoopExhausted(w)
    \/ SkipFinalCall(w)
    \/ GrAppendMessages(w)
    \/ AppendSetdefault(w)
    \/ AppendLoop(w)
    \/ AppendDone(w)
    \/ Return(w)
    \/ Propagate(w)

\* HOSPITAL_CLIENT_ID: the default of config.py, or set to the empty string
HospitalClientIds == {"444d9283-88fa-4320-a084-1adb97085d41", ""}

InitTools ==
    /\ store = << >>
    /\ lock = NoWorker
    /\ pc = [w \in Workers |-> "idle"]
    /\ mem = [w \in Workers |-> NoMem]
    /\ gr = [w \in Workers |-> NoRequest]
    /\ settings \in [hospital_client_id : HospitalClientIds]
    /\ oplog = [id \in StoreIds |-> <<>>]
    /\ ncalls = 0

\* the `limit` and `client_id` arguments the model sends
Limits == {0, 10, 50, 51, 999}
ClientIds == {None, "client-7"}

\* the tool invocation requests of a model response
AppointmentRequests ==
    { <<[name |-> "appointments_by_phone",
         args |-> ToolArgs(TRUE, <<>>, 1, limit, None)]>> : limit \in Limits }
       \cup
    { <<[name |-> "book_appointment",
         args |-> ToolArgs(TRUE, <<>>, 1, 10, client_id)]>> : client_id \in ClientIds }

NextTools ==
    \/ \E w \in LoopWorkers :
          ncalls < MaxToolRequests /\ GenerateReply(w, "u1", <<>>, None)
    \/ \E w \in LoopWorkers : DefaultSessionStep(w)
    \/ \E w \in LoopWorkers : LlmWithToolsInvoke(w, Str("r1"), <<>>)
    \/ \E w \in LoopWorkers, tool_calls \in AppointmentRequests :
          LlmWithToolsInvoke(w, Str(""), tool_calls)
    \/ \E w \in LoopWorkers : LlmWithToolsRaises(w)
    \/ \E w \in LoopWorkers : CallTool(w, "ok")
    \/ \E w \in LoopWorkers : FinalLlmInvoke(w, Str("r1"))
    \/ \E w \in LoopWorkers : FinalLlmRaises(w)

SpecTools == InitTools /\ [][NextTools]_vars

\* the specialty queries the model searches with
SearchQueries ==
    {
      <<104, 101, 97, 114, 116, 32, 100, 111, 99, 116, 111, 114>>,   \* "heart doctor"
      <<32, 32, 72, 101, 97, 114, 116, 32, 68, 111, 99, 116, 111, 114, 32>>,   \* "  Heart Doctor "
      <<99, 97, 114, 100, 105, 111, 108, 111, 103, 115, 116>>,   \* "cardiologst"
      <<73, 32, 110, 101, 101, 100, 32, 97, 32, 115, 107, 105, 110, 32, 100, 111, 99, 116, 111, 114, 32, 112, 108, 101, 97, 115, 101>>,   \* "I need a skin doctor please"
      <<68, 101, 110, 116, 105, 115, 116, 32>>,   \* "Dentist "
      <<32, 32, 32>>,   \* "   "
      <<>>,   \* ""
      <<98, 111, 110, 101, 32, 100, 111, 99, 116, 111, 32, 103, 97, 115, 116, 114, 111>>,   \* "bone docto gastro"
      <<2348, 2366, 2354, 2352, 2379, 2327, 32, 2340, 2332, 2381, 2334>>   \* the Marathi alias of line 124
    }

SearchRequests ==
    { <<[name |-> "search_doctors",
         args |-> ToolArgs(TRUE, query, 1, 10, None)]>> : query \in SearchQueries }

NextSearch ==
    \/ \E w \in LoopWorkers :
          ncalls < MaxToolRequests /\ GenerateReply(w, "u1", <<>>, None)
    \/ \E w \in LoopWorkers : DefaultSessionStep(w)
    \/ \E w \in LoopWorkers : LlmWithToolsInvoke(w, Str("r1"), <<>>)
    \/ \E w \in LoopWorkers, tool_calls \in SearchRequests :
          LlmWithToolsInvoke(w, Str(""), tool_calls)
    \/ \E w \in LoopWorkers : LlmWithToolsRaises(w)
    \/ \E w \in LoopWorkers : CallTool(w, "ok")
    \/ \E w \in LoopWorkers : FinalLlmInvoke(w, Str("r1"))
    \/ \E w \in LoopWorkers : FinalLlmRaises(w)

SpecSearch == Init /\ [][NextSearch]_vars

-----------------------------------------------------------------------------
(* A session: chat requests under one identifier, one after the other,
   without inline history, each of which completes *)

MaxSessionRequests == 4   \* chat requests started in one behaviour

\* the identifier the caller sends with every request of the session
SessionCallerIds == {"c1"}

\* the steps of a request of the session that take no input
SessionStep(w) ==
    \/ GrGetHistory(w)
    \/ Acquire(w)
    \/ GetBody(w)
    \/ Release(w)
    \/ GrBuild(w)
    \/ ToolsDone(w)
    \/ LoopExhausted(w)
    \/ SkipFinalCall(w)
    \/ GrAppendMessages(w)
    \/ AppendSetdefault(w)
    \/ AppendLoop(w)
    \/ AppendDone(w)
    \/ Return(w)

\* request k sends the user message "u<k>" and the model answers it "r<k>"
NextSession ==
    \/ \E w \in LoopWorkers, cid \in SessionCallerIds :
          /\ ncalls < MaxSessionRequests
          /\ GenerateReply(w, "u" \o ToString(ncalls + 1), <<>>, cid)
    \/ \E w \in LoopWorkers : SessionStep(w)
    \/ \E w \in LoopWorkers :
          LlmWithToolsInvoke(w, Str("r" \o ToString(ncalls)), <<>>)
    \/ \E w \in LoopWorkers : LlmWithToolsInvoke(w, Str(""), ConcToolCalls)
    \/ \E w \in LoopWorkers : CallTool(w, "ok")
    \/ \E w \in LoopWorkers : FinalLlmInvoke(w, Str("r" \o ToString(ncalls)))

SpecSession == Init /\ [][NextSession]_vars

-----------------------------------------------------------------------------
(* Properties of the history store *)

Min(a, b) == IF a < b THEN a ELSE b

\* the last n elements of s
LastTurns(s, n) == [i \in 1..Min(n, Len(s)) |-> s[Len(s) - Min(n, Len(s)) + i]]

\* the window was absent and has since only been appended to
FromAbsent(log) ==
    \A i \in 1..Len(log) :
        \/ log[i].op = "append_messages"
        \/ i = 1 /\ log[i].op = "clear"

IsAppend(entry) == entry.op = "append_messages"

RECURSIVE ConcatTurns(_)
ConcatTurns(entries) ==
    IF entries = <<>> THEN <<>>
    ELSE Head(entries).turns \o ConcatTurns(Tail(entries))

\* worker w is inside get_history and has taken its snapshot
Got(w) == pc[w] = "release" /\ mem[w].op = "get_history"

\* worker w is inside the locked region of a store method on id
InBody(w, id) ==
    /\ pc[w] \in {"get_body", "set_loop", "append_setdefault", "append_loop",
                  "clear_pop", "release"}
    /\ mem[w].id = id

\* C1: after append_messages calls that together added N turns to an absent
\* window, get_history returns exactly the last min(N, 5) of them, in
\* insertion order.
C1_GetReturnsLastFiveAppended ==
    \A w \in Workers :
        (Got(w) /\ FromAbsent(oplog[mem[w].id])) =>
            LET added == ConcatTurns(SelectSeq(oplog[mem[w].id], IsAppend))
                N == Len(added)
                got == mem[w].result
            IN  /\ Len(got) = Min(N, 5)
                /\ \A i \in 1..Len(got) : got[i] = added[N - Len(got) + i]

\* C1 witness: get_history returns after two or more appends added more than
\* 5 turns to an absent window.
C1_Witness ==
    \E w \in Workers :
        /\ Got(w)
        /\ FromAbsent(oplog[mem[w].id])
        /\ Len(SelectSeq(oplog[mem[w].id], IsAppend)) >= 2
        /\ Len(ConcatTurns(SelectSeq(oplog[mem[w].id], IsAppend))) > 5
        /\ Len(mem[w].result) = 5

\* every concatenation of the turn lists of the entries indexed by S, in any order
RECURSIVE SerialConcats(_, _)
SerialConcats(entries, S) ==
    IF S = {} THEN {<<>>}
    ELSE UNION { { c \o entries[i].turns : c \in SerialConcats(entries, S \ {i}) }
                 : i \in S }

\* C3: concurrent append_messages calls on one identifier lose no append and
\* never interleave: once the calls have returned, the window is the last 5
\* turns of a serial concatenation of the calls' turn lists.
C3_ConcurrentAppendsAreSerial ==
    \A id \in StoreIds :
        (FromAbsent(oplog[id]) /\ \A w \in Workers : ~InBody(w, id)) =>
            LET appends == SelectSeq(oplog[id], IsAppend)
            IN  \E c \in SerialConcats(appends, 1..Len(appends)) :
                    Window(store, id) = LastTurns(c, 5)

\* C3 witness: two append_messages calls on one identifier have returned, the
\* second of which waited for the lock while the first held it, and together
\* they added more than 5 turns.
C3_Witness ==
    \E id \in StoreIds :
        /\ FromAbsent(oplog[id])
        /\ \A w \in Workers : ~InBody(w, id)
        /\ LET appends == SelectSeq(oplog[id], IsAppend)
           IN  /\ Len(appends) >= 2
               /\ appends[1].contended
               /\ appends[1].turns # appends[2].turns
               /\ Len(ConcatTurns(appends)) > 5
               /\ Len(Window(store, id)) = 5

\* C4: get_history right after set_history(id, turns) returns the turns if
\* there are at most 5 of them, else their last 5 in order, whatever the
\* window held before.
C4_SetThenGet ==
    \A w \in Workers :
        (/\ Got(w)
         /\ Len(oplog[mem[w].id]) = 1
         /\ oplog[mem[w].id][1].op = "set_history") =>
            LET turns == oplog[mem[w].id][1].turns
                got == mem[w].result
            IN  /\ Len(turns) <= 5 => got = turns
                /\ Len(turns) > 5 =>
                      /\ Len(got) = 5
                      /\ \A i \in 1..5 : got[i] = turns[Len(turns) - 5 + i]

\* C4 witness: get_history returns after a set_history that supplied more
\* than 5 turns for an identifier whose window was not empty.
C4_Witness ==
    \E w \in Workers :
        /\ Got(w)
        /\ Len(oplog[mem[w].id]) = 1
        /\ oplog[mem[w].id][1].op = "set_history"
        /\ oplog[mem[w].id][1].prior > 0
        /\ Len(oplog[mem[w].id][1].turns) > 5

\* worker w executes the pop of clear in this step
ClearStep(w) == pc[w] = "clear_pop" /\ pc'[w] = "release"

\* C5: get_history right after clear(id) returns the empty sequence; clear of
\* an identifier without a window changes nothing; clear(id) leaves the
\* windows of all other identifiers as they were.
C5_ClearThenGetIsEmpty ==
    \A w \in Workers :
        (/\ Got(w)
         /\ Len(oplog[mem[w].id]) = 1
         /\ oplog[mem[w].id][1].op = "clear") => mem[w].result = <<>>

C5_ClearFrame ==
    \A w \in Workers :
        ClearStep(w) =>
            /\ mem[w].id \notin DOMAIN store'
            /\ \A k \in StoreIds \ {mem[w].id} :
                  /\ (k \in DOMAIN store) = (k \in DOMAIN store')
                  /\ k \in DOMAIN store => store'[k] = store[k]
            /\ mem[w].id \notin DOMAIN store => store' = store

C5_Clear == [](C5_ClearThenGetIsEmpty) /\ [][C5_ClearFrame]_vars

\* C5 witness: get_history returns the snapshot of an identifier whose
\* non-empty window was cleared, while another identifier has a window.
C5_Witness ==
    \E w \in Workers :
        /\ Got(w)
        /\ Len(oplog[mem[w].id]) = 1
        /\ oplog[mem[w].id][1].op = "clear"
        /\ oplog[mem[w].id][1].prior > 0
        /\ \E k \in DOMAIN store : k # mem[w].id /\ store[k] # <<>>

\* C2: under every interleaving of set_history, append_messages, clear and
\* generate_reply calls, every stored window holds at most 5 turns.
C2_WindowsHoldAtMostFive ==
    \A id \in DOMAIN store : Len(store[id]) <= 5

\* C2 witness: a request that supplied more than 5 turns of inline history
\* has persisted its exchange into a full window while another thread is
\* inside a direct store call on the same identifier.
C2_Witness ==
    \E w \in Workers, v \in Workers :
        /\ pc[w] = "gr_return"
        /\ Truthy(gr[w].effective_id)
        /\ Len(gr[w].history) > 5
        /\ Len(Window(store, gr[w].effective_id)) = 5
        /\ v # w
        /\ ~gr[v].active
        /\ mem[v].op \in {"set_history", "append_messages", "clear"}
        /\ mem[v].id = gr[w].effective_id

-----------------------------------------------------------------------------
(* Properties of the orchestration loop *)

Done(w) == pc[w] \in {"gr_return", "gr_raised"}

IsModelCall(c) == c.kind \in {"llm_with_tools", "llm"}

\* a tool-enabled model call that returned text and no tool invocation request
TextOnly(c) ==
    c.kind = "llm_with_tools" /\ c.exc = None /\ c.out.tool_calls = <<>>

\* a tool-enabled model call that returned tool invocation requests
RequestedTools(c) ==
    c.kind = "llm_with_tools" /\ c.exc = None /\ c.out.tool_calls # <<>>

\* how many records of the trace satisfy kind = k
CountKind(c, k) == Cardinality({i \in 1..Len(c) : c[i].kind = k})

\* the text of the responses the model client is exercised with
ExpectedText(content) ==
    IF content.kind = "str" THEN content.text ELSE "r2a\nr2b"

\* C6: when the first model response carries no tool invocation request,
\* generate_reply makes exactly one model call and no tool call, and returns
\* the text of that response.
C6_TextResponseEndsTheLoop ==
    \A w \in Workers :
        (/\ gr[w].active
         /\ Len(gr[w].calls) >= 1
         /\ TextOnly(gr[w].calls[1])) =>
            /\ Len(gr[w].calls) = 1
            /\ pc[w] # "gr_raised"
            /\ pc[w] = "gr_return" =>
                  gr[w].reply_text = ExpectedText(gr[w].calls[1].out.content)

\* C6 witness: a request returns after a first response whose content is a
\* list of chunks and which requests no tool.
C6_Witness ==
    \E w \in Workers :
        /\ pc[w] = "gr_return"
        /\ TextOnly(gr[w].calls[1])
        /\ gr[w].calls[1].out.content.kind = "list"
        /\ gr[w].reply_text = "r2a\nr2b"

\* every one of the 3 tool-enabled calls was made and requested tools
AllThreeRequestedTools(c) ==
    /\ CountKind(c, "llm_with_tools") = 3
    /\ \A i \in 1..Len(c) : c[i].kind = "llm_with_tools" => RequestedTools(c[i])

\* C7: a request makes at most 3 tool-enabled model calls and at most 4 model
\* calls; the schema-free call is made only when all 3 tool-enabled calls
\* requested tools; and when they did, the request that returns has made
\* exactly one schema-free call, its last call, and returns its text.
C7_IterationCapAndFinalCall ==
    \A w \in Workers :
        gr[w].active =>
            LET c == gr[w].calls
                withTools == CountKind(c, "llm_with_tools")
                plain == CountKind(c, "llm")
            IN  /\ withTools <= 3
                /\ withTools + plain <= 4
                /\ plain >= 1 => AllThreeRequestedTools(c)
                /\ (pc[w] = "gr_return" /\ AllThreeRequestedTools(c)) =>
                      /\ plain = 1
                      /\ c[Len(c)].kind = "llm"
                      /\ gr[w].reply_text = ExpectedText(c[Len(c)].out.content)

\* C7 witness: a request returns after 3 tool-enabled calls that all
\* requested tools and one schema-free call.
C7_Witness ==
    \E w \in Workers :
        /\ pc[w] = "gr_return"
        /\ AllThreeRequestedTools(gr[w].calls)
        /\ CountKind(gr[w].calls, "llm") = 1
        /\ CountKind(gr[w].calls, "call_tool") >= 3

\* C8: every request reaches Done (it returns or raises), whatever the model
\* answers, provided every model call and tool call returns or raises.
C8_EveryRequestTerminates ==
    \A w \in Workers : gr[w].active ~> Done(w)

\* C8 witness: a stateful request with inline history is Done after the
\* model requested tools in each of its 3 tool-enabled responses.
C8_Witness ==
    \E w \in Workers :
        /\ Done(w)
        /\ Truthy(gr[w].effective_id)
        /\ gr[w].history # <<>>
        /\ AllThreeRequestedTools(gr[w].calls)
        /\ gr[w].iteration = 3

\* C9: a request for a tool that is not registered does not raise: a Tool
\* Result saying the tool is not available, with the requested name and
\* correlation id, is appended to the context and a model call follows.
C9_UnknownToolIsAnswered ==
    \A w \in Workers :
        gr[w].active =>
            LET c == gr[w].calls
            IN  /\ \A i \in 1..Len(c) :
                      (c[i].kind = "call_tool" /\ c[i].name \notin ToolNames) =>
                          /\ c[i].out.type = "tool"
                          /\ c[i].name = "lookup_insurance" =>
                                c[i].out.content = Str(
                                  "Requested tool 'lookup_insurance' is not available.")
                          /\ c[i].out.name = c[i].name
                          /\ c[i].out.tool_call_id = c[i].id
                          /\ \E r \in 1..(i - 1) :
                                /\ RequestedTools(c[r])
                                /\ \E k \in 1..Len(c[r].out.tool_calls) :
                                      /\ c[r].out.tool_calls[k].id = c[i].id
                                      /\ c[r].out.tool_calls[k].name = c[i].name
                          /\ \E k \in 1..Len(gr[w].conversation) :
                                gr[w].conversation[k] = c[i].out
                          /\ Done(w) => \E j \in (i + 1)..Len(c) : IsModelCall(c[j])
                /\ pc[w] = "gr_raised" =>
                      IsModelCall(c[Len(c)]) /\ c[Len(c)].exc # None

\* C9 witness: a request returned after a response that requested the
\* unregistered tool and a later model call.
C9_Witness ==
    \E w \in Workers :
        /\ pc[w] = "gr_return"
        /\ \E i \in 1..(Len(gr[w].calls) - 1) :
              /\ gr[w].calls[i].kind = "call_tool"
              /\ gr[w].calls[i].name \notin ToolNames
              /\ gr[w].calls[i + 1].kind = "llm_with_tools"

\* the index of the model call whose response requested the dispatch at i
ResponseOf(c, i) ==
    CHOOSE r \in 1..(i - 1) :
        /\ c[r].kind = "llm_with_tools"
        /\ \A j \in (r + 1)..i : c[j].kind = "call_tool"

\* C10: a failure while a registered tool executes (transport error, remote
\* error status, argument validation error) never aborts the request: it
\* becomes a textual Tool Result appended to the context, and the loop goes on
\* with the remaining tool requests of the response and the next model call.
C10_ToolFailureIsFedBack ==
    \A w \in Workers :
        gr[w].active =>
            LET c == gr[w].calls
            IN  /\ \A i \in 1..Len(c) :
                      (/\ c[i].kind = "call_tool"
                       /\ c[i].name \in ToolNames
                       /\ c[i].exc # None) =>
                          /\ c[i].out.type = "tool"
                          /\ c[i].out.content =
                                Str("Tool '" \o c[i].name \o "' failed: " \o c[i].exc)
                          /\ c[i].out.name = c[i].name
                          /\ c[i].out.tool_call_id = c[i].id
                          /\ \E k \in 1..Len(gr[w].conversation) :
                                gr[w].conversation[k] = c[i].out
                          /\ Done(w) => Len(c) > i
                          /\ Len(c) > i =>
                                LET r == ResponseOf(c, i)
                                    requests == c[r].out.tool_calls
                                IN  IF i - r < Len(requests)
                                    THEN /\ c[i + 1].kind = "call_tool"
                                         /\ c[i + 1].id = requests[i - r + 1].id
                                         /\ c[i + 1].name = requests[i - r + 1].name
                                    ELSE IsModelCall(c[i + 1])
                /\ pc[w] = "gr_raised" =>
                      IsModelCall(c[Len(c)]) /\ c[Len(c)].exc # None

\* C10 witness: a request returned although its tools failed with a
\* transport error, with a remote error status and on argument validation,
\* one of the failures being followed by another tool request of the same
\* response.
C10_Witness ==
    \E w \in Workers :
        /\ pc[w] = "gr_return"
        /\ LET c == gr[w].calls
           IN  /\ \E i \in 1..Len(c) : c[i].exc = "Hospital API request failed"
               /\ \E i \in 1..Len(c) : c[i].exc = "Hospital API error 500"
               /\ \E i \in 1..Len(c) :
                     /\ c[i].kind = "call_tool"
                     /\ c[i].exc = "validation error"
               /\ \E i \in 1..(Len(c) - 1) :
                     /\ c[i].kind = "call_tool"
                     /\ c[i].exc # None
                     /\ c[i + 1].kind = "call_tool"

\* the records of the trace whose message generate_reply appends to the context
Appended(c) ==
    \/ c.kind = "call_tool"
    \/ c.kind = "llm_with_tools" /\ c.exc = None

\* the index of the first model call after the trace record r, or 0
NextModelCall(c, r) ==
    IF \E j \in (r + 1)..Len(c) : IsModelCall(c[j])
    THEN CHOOSE j \in (r + 1)..Len(c) :
            IsModelCall(c[j]) /\ \A k \in (r + 1)..(j - 1) : ~IsModelCall(c[k])
    ELSE 0

\* C11: every tool invocation request of a model response is dispatched
\* exactly once and yields one Tool Result with the request's name and
\* correlation id; the results follow the response in the context, in the
\* order of the requests, and all of them precede the next model call.
C11_EachRequestDispatchedOnceInOrder ==
    \A w \in Workers :
        gr[w].active =>
            LET c == gr[w].calls
                conv == gr[w].conversation
                n == Cardinality({i \in 1..Len(c) : Appended(c[i])})
            IN  /\ \A r \in 1..Len(c) :
                      RequestedTools(c[r]) =>
                          LET requests == c[r].out.tool_calls
                              next == NextModelCall(c, r)
                          IN  /\ \A k \in 1..Len(requests) :
                                    r + k <= Len(c) =>
                                        /\ c[r + k].kind = "call_tool"
                                        /\ c[r + k].name = requests[k].name
                                        /\ c[r + k].id = requests[k].id
                                        /\ c[r + k].out.type = "tool"
                                        /\ c[r + k].out.name = requests[k].name
                                        /\ c[r + k].out.tool_call_id = requests[k].id
                              /\ \A k \in 1..Len(requests) :
                                    Cardinality({i \in 1..Len(c) :
                                        /\ c[i].kind = "call_tool"
                                        /\ c[i].id = requests[k].id}) <= 1
                              /\ next # 0 => next = r + Len(requests) + 1
                              /\ Done(w) => Len(c) > r + Len(requests)
                /\ \A i \in 1..Len(c) : Appended(c[i]) => i <= n
                /\ Len(c) >= 1 => Len(conv) >= n + 2
                /\ \A i \in 1..n : conv[Len(conv) - n + i] = c[i].out

\* C11 witness: a request returned after a response with two tool requests,
\* the first of which failed, both answered in order before the next model
\* call.
C11_Witness ==
    \E w \in Workers :
        /\ pc[w] = "gr_return"
        /\ \E r \in 1..(Len(gr[w].calls) - 3) :
              LET c == gr[w].calls
              IN  /\ RequestedTools(c[r])
                  /\ Len(c[r].out.tool_calls) = 2
                  /\ c[r + 1].kind = "call_tool" /\ c[r + 1].exc # None
                  /\ c[r + 2].kind = "call_tool"
                  /\ c[r + 2].id = c[r].out.tool_calls[2].id
                  /\ IsModelCall(c[r + 3])

\* the locations inside a ConversationMemory method
MemLocations ==
    {"acquire", "get_body", "set_loop", "append_setdefault", "append_loop",
     "clear_pop", "release"}

\* worker w serves a request without identifier and with inline history
Ephemeral(w) ==
    /\ gr[w].active
    /\ ~Truthy(gr[w].conversation_id)
    /\ gr[w].history # <<>>

C12_NoStoreCall ==
    \A w \in Workers :
        Ephemeral(w) =>
            /\ pc[w] \notin MemLocations
            /\ mem[w] = NoMem
            /\ lock # w

C12_StoreFrame ==
    \A w \in Workers :
        (Ephemeral(w) \/ Ephemeral(w)') => store' = store

\* C12: a request with no conversation identifier and non-empty inline
\* history never enters a History Store method, and no step from its arrival
\* to its return changes a stored window.
C12_EphemeralRequestLeavesStoreAlone ==
    [](C12_NoStoreCall) /\ [][C12_StoreFrame]_vars

\* C12 witness: an ephemeral request is about to return, after tool calls,
\* while the store holds the window of an earlier conversation.
C12_Witness ==
    \E w \in Workers :
        /\ Ephemeral(w)
        /\ pc[w] = "gr_return"
        /\ CountKind(gr[w].calls, "call_tool") >= 1
        /\ \E id \in DOMAIN store : Len(store[id]) >= 2

\* the turn is the user message of a request served by worker w
UserTurnOf(turn, w) == turn = Message("user", "u@" \o w)

C13_PairWrittenUnderOneLock ==
    \A w \in Workers :
        (/\ gr[w].active
         /\ pc[w] = "release"
         /\ mem[w].op = "append_messages") =>
            LastTurns(Window(store, gr[w].effective_id), 2) =
                <<Message("user", gr[w].user_message),
                  Message("assistant", gr[w].reply_text)>>

C13_NothingBetweenThePair ==
    \A id \in DOMAIN store, w \in Workers :
        \A i \in 1..Len(store[id]) :
            UserTurnOf(store[id][i], w) =>
                IF i < Len(store[id])
                THEN store[id][i + 1] = Message("assistant", "r1")
                ELSE /\ lock = w
                     /\ pc[w] = "append_loop"
                     /\ gr[w].user_message = "u@" \o w
                     /\ mem[w].msgs = <<Message("assistant", gr[w].reply_text)>>

\* C13: when a stateful request leaves append_messages, its window ends with
\* the user turn followed by the assistant turn holding the reply; and in
\* every state, under every interleaving, a request's user turn in a window is
\* directly followed by its assistant turn, or is the last turn while the
\* request still holds the lock and is about to append the assistant turn.
C13_ExchangePersistedAtomically ==
    C13_PairWrittenUnderOneLock /\ C13_NothingBetweenThePair

\* C13 witness: two concurrent requests on one identifier have both persisted
\* their exchange, one of them having waited for the lock while the other was
\* appending.
C13_Witness ==
    \E id \in DOMAIN store, w \in Workers, v \in Workers :
        /\ w # v
        /\ pc[w] = "gr_return" /\ pc[v] = "gr_return"
        /\ Len(oplog[id]) >= 2
        /\ \E k \in 1..Len(oplog[id]) :
              oplog[id][k].op = "append_messages" /\ oplog[id][k].contended
        /\ LastTurns(store[id], 4) =
              <<Message("user", "u@" \o w), Message("assistant", "r1"),
                Message("user", "u@" \o v), Message("assistant", "r1")>>

\* the trace of a request whose model first requested tools and then
\* answered with text
ToolThenText(c) ==
    /\ Len(c) >= 3
    /\ RequestedTools(c[1])
    /\ Len(c) = Len(c[1].out.tool_calls) + 2
    /\ \A i \in 2..(Len(c) - 1) : c[i].kind = "call_tool"
    /\ TextOnly(c[Len(c)])

\* C14: the first request on an empty store, without identifier and without
\* inline history, whose model requests a tool and then answers with text,
\* returns with the store holding one window, under the default identifier,
\* of exactly 2 turns: the user message, then the assistant reply.
C14_DefaultSessionHoldsTheExchange ==
    \A w \in Workers :
        (/\ pc[w] = "gr_return"
         /\ ncalls = 1
         /\ ~Truthy(gr[w].conversation_id)
         /\ gr[w].history = <<>>
         /\ ToolThenText(gr[w].calls)) =>
            /\ DOMAIN store = {"_default_session"}
            /\ store["_default_session"] =
                  <<Message("user", gr[w].user_message),
                    Message("assistant",
                            ExpectedText(gr[w].calls[Len(gr[w].calls)].out.content))>>

\* C14 witness: such a request is about to return; its tool call succeeded.
C14_Witness ==
    \E w \in Workers :
        /\ pc[w] = "gr_return"
        /\ ncalls = 1
        /\ gr[w].conversation_id = None
        /\ gr[w].history = <<>>
        /\ ToolThenText(gr[w].calls)
        /\ gr[w].calls[2].exc = None
        /\ gr[w].calls[2].name \in ToolNames
        /\ Len(Window(store, "_default_session")) = 2

\* the turns callers supply as inline history
CallerTurns ==
    UNION { {Payload("h", n)[i] : i \in 1..n} : n \in HistorySizes }

\* the user messages of the requests
UserTurns == {Message("user", "u" \o ToString(k)) : k \in 1..MaxRequests}

\* the final reply texts of the requests
ReplyTurns == {Message("assistant", ExpectedText(content)) : content \in TextContents}

\* C15: every turn of every stored window is a turn supplied by a caller as
\* inline history, the user message of a request, or the final reply text of
\* a request; no Tool Result and no model response that requests tools is
\* ever stored.
C15_StoreHoldsOnlyCallerAndReplyTurns ==
    \A id \in DOMAIN store :
        \A i \in 1..Len(store[id]) :
            store[id][i] \in CallerTurns \cup UserTurns \cup ReplyTurns

\* C15 witness: a request whose context holds a model response with tool
\* requests and their Tool Results has persisted its exchange, after inline
\* history, into a full window.
C15_Witness ==
    \E w \in Workers :
        /\ pc[w] = "gr_return"
        /\ Truthy(gr[w].effective_id)
        /\ \E k \in 1..Len(gr[w].conversation) : gr[w].conversation[k].type = "tool"
        /\ \E k \in 1..Len(gr[w].conversation) :
              gr[w].conversation[k].tool_calls # <<>>
        /\ Len(Window(store, gr[w].effective_id)) = 5
        /\ Window(store, gr[w].effective_id)[1] \in CallerTurns

\* the history source of the request of worker w
HistorySource(w) ==
    IF Truthy(gr[w].effective_id) THEN Window(store, gr[w].effective_id)
    ELSE gr[w].history

IsDialogueTurn(turn) == turn.role \in {"user", "assistant"}

\* worker w is about to make the first model call of its request
AtFirstModelCall(w) == gr[w].active /\ pc[w] = "gr_loop" /\ gr[w].calls = <<>>

\* C16: the context of the first model call is the system instruction, then
\* the user and assistant turns among the last 5 turns of the history source
\* in their order (system turns dropped), then the new user turn: at most 5
\* historical turns and exactly one system turn.
C16_FirstContext ==
    \A w \in Workers :
        AtFirstModelCall(w) =>
            LET conv == gr[w].conversation
                kept == SelectSeq(LastTurns(HistorySource(w), 5), IsDialogueTurn)
            IN  /\ Len(conv) = Len(kept) + 2
                /\ conv[1].type = "system"
                /\ conv[1].content = Str(SYSTEM_PROMPT)
                /\ \A i \in 1..Len(kept) :
                      /\ conv[i + 1].type =
                            (IF kept[i].role = "user" THEN "human" ELSE "ai")
                      /\ conv[i + 1].content = Str(kept[i].content)
                /\ conv[Len(conv)].type = "human"
                /\ conv[Len(conv)].content = Str(gr[w].user_message)
                /\ Len(conv) - 2 <= 5
                /\ Cardinality({i \in 1..Len(conv) : conv[i].type = "system"}) = 1

\* C16 witness: the first model call of a request whose inline history holds
\* more than 5 turns, with system turns among the last 5.
C16_Witness ==
    \E w \in Workers :
        /\ AtFirstModelCall(w)
        /\ Len(gr[w].history) > 5
        /\ \E i \in 1..5 : LastTurns(gr[w].history, 5)[i].role = "system"
        /\ Len(gr[w].conversation) = 5

\* a model call of the trace that raised
ModelCallRaised(c) == IsModelCall(c) /\ c.exc # None

C19_RaiseEndsTheRequest ==
    \A w \in Workers :
        gr[w].active =>
            /\ \A i \in 1..Len(gr[w].calls) :
                  ModelCallRaised(gr[w].calls[i]) =>
                      /\ i = Len(gr[w].calls)
                      /\ pc[w] = "gr_raised"
            /\ pc[w] = "gr_raised" =>
                  /\ mem[w].op # "append_messages"
                  /\ \A id \in DOMAIN store :
                        \A k \in 1..Len(store[id]) :
                            store[id][k] # Message("user", gr[w].user_message)

C19_RaiseLeavesGenerateReply ==
    \A w \in Workers :
        pc[w] = "gr_raised" =>
            /\ pc'[w] = "idle"
            /\ ~gr'[w].active
            /\ store' = store

\* C19: a model call that raises is the last call of its request: no model
\* or tool call follows, the request does not return a reply, its user and
\* assistant turns are not appended to any window, and its next step hands
\* the exception to the caller without touching the store.
C19_ModelFailurePropagates ==
    [](C19_RaiseEndsTheRequest) /\ [][C19_RaiseLeavesGenerateReply]_vars

\* C19 witness: a stateful request with inline history raised out of a model
\* call made after a round of tool calls.
C19_Witness ==
    \E w \in Workers :
        /\ pc[w] = "gr_raised"
        /\ Truthy(gr[w].effective_id)
        /\ Len(Window(store, gr[w].effective_id)) >= 3
        /\ Len(gr[w].calls) >= 3
        /\ gr[w].calls[Len(gr[w].calls) - 1].kind = "call_tool"
        /\ ModelCallRaised(gr[w].calls[Len(gr[w].calls)])

-----------------------------------------------------------------------------
(* Properties of the tools *)

\* a dispatch of the registered tool `name`
DispatchOf(c, name) == c.kind = "call_tool" /\ c.name = name

\* C17: a request for appointments_by_phone with a limit outside [1, 50] is
\* not rejected: the limit is clamped into [1, 50] (999 becomes 50) and the
\* remote call is made with the clamped value.
C17_OutOfRangeLimitIsClamped ==
    \A w \in Workers :
        gr[w].active =>
            \A i \in 1..Len(gr[w].calls) :
                LET c == gr[w].calls[i]
                IN  (/\ DispatchOf(c, "appointments_by_phone")
                     /\ c.args.limit \notin 1..50) =>
                        /\ c.exc # "validation error"
                        /\ c.sent.made
                        /\ c.sent.limit = (IF c.args.limit > 50 THEN 50 ELSE 1)

\* What dispatch does with such a request: the argument schema rejects it, no
\* remote call is made, and the failure is fed back as a Tool Result; a limit
\* within [1, 50] is sent as it is.
OutOfRangeLimitIsRejected ==
    \A w \in Workers :
        gr[w].active =>
            \A i \in 1..Len(gr[w].calls) :
                LET c == gr[w].calls[i]
                IN  DispatchOf(c, "appointments_by_phone") =>
                        IF c.args.limit \in 1..50
                        THEN c.exc = None /\ c.sent.made /\ c.sent.limit = c.args.limit
                        ELSE /\ c.exc = "validation error"
                             /\ ~c.sent.made
                             /\ c.out.content = Str(
                                  "Tool 'appointments_by_phone' failed: validation error")

\* C18: a request for book_appointment without client_id, while no default
\* client identifier is configured, ends the chat request with an error
\* surfaced to the caller: no Tool Result is fed back and the loop stops.
C18_MissingClientIdIsFatal ==
    \A w \in Workers :
        gr[w].active =>
            \A i \in 1..Len(gr[w].calls) :
                LET c == gr[w].calls[i]
                IN  (/\ DispatchOf(c, "book_appointment")
                     /\ ~Truthy(c.args.client_id)
                     /\ ~Truthy(settings.hospital_client_id)) =>
                        /\ c.out.type # "tool"
                        /\ i = Len(gr[w].calls)
                        /\ pc[w] = "gr_raised"

\* What dispatch does with such a request: the RuntimeError of
\* require_hospital_client_id is caught by _call_tool and fed back as a Tool
\* Result, and the request goes on.
MissingClientIdIsFedBack ==
    \A w \in Workers :
        gr[w].active =>
            \A i \in 1..Len(gr[w].calls) :
                LET c == gr[w].calls[i]
                IN  (/\ DispatchOf(c, "book_appointment")
                     /\ ~Truthy(c.args.client_id)
                     /\ ~Truthy(settings.hospital_client_id)) =>
                        /\ c.exc = "Missing HOSPITAL_CLIENT_ID"
                        /\ ~c.sent.made
                        /\ c.out.content = Str(
                             "Tool 'book_appointment' failed: Missing HOSPITAL_CLIENT_ID")
                        /\ pc[w] = "gr_raised" =>
                              ModelCallRaised(gr[w].calls[Len(gr[w].calls)])

\* the aliases whose similarity to the cleaned query reaches the cutoff
FuzzyMatches(cleaned) ==
    {k \in 1..Len(ALIAS_TO_SPECIALTY) :
        AtLeastCutoff(ratio(ALIAS_TO_SPECIALTY[k].alias, cleaned))}

\* the aliases that occur in the cleaned query
SubstringMatches(cleaned) ==
    {k \in 1..Len(ALIAS_TO_SPECIALTY) :
        Contains(cleaned, ALIAS_TO_SPECIALTY[k].alias)}

\* alias k is the closest of the set F to the cleaned query
Closest(k, F, cleaned) ==
    \A j \in F :
        ~ScoredLess([score |-> ratio(ALIAS_TO_SPECIALTY[k].alias, cleaned),
                     x |-> ALIAS_TO_SPECIALTY[k].alias],
                    [score |-> ratio(ALIAS_TO_SPECIALTY[j].alias, cleaned),
                     x |-> ALIAS_TO_SPECIALTY[j].alias])

\* "Cardiologist"
Cardiologist == <<67, 97, 114, 100, 105, 111, 108, 111, 103, 105, 115, 116>>

\* C20: the query search_doctors sends is decided by the first strategy that
\* applies, in the order exact alias, fuzzy match at or above the cutoff,
\* alias as substring, passthrough: a query that trimmed and lower-cased is
\* an alias ("heart doctor") yields the alias's canonical label
\* ("Cardiologist"), and a query no strategy matches is sent exactly as given.
C20_StrategiesInOrder ==
    \A w \in Workers :
        (/\ gr[w].active
         /\ gr[w].calls # <<>>
         /\ DispatchOf(gr[w].calls[Len(gr[w].calls)], "search_doctors")) =>
            LET c == gr[w].calls[Len(gr[w].calls)]
                raw_query == c.args.query
                got == c.sent.query
                cleaned == Lower(Strip(raw_query))
                exact == {k \in 1..Len(ALIAS_TO_SPECIALTY) :
                             ALIAS_TO_SPECIALTY[k].alias = cleaned}
                fuzzy == FuzzyMatches(cleaned)
                within == SubstringMatches(cleaned)
            IN  /\ c.sent.made
                /\ raw_query = HeartDoctor => got = Cardiologist
                /\ IF exact # {}
                   THEN \E k \in exact : got = ALIAS_TO_SPECIALTY[k].canonical
                   ELSE IF cleaned # <<>> /\ fuzzy # {}
                   THEN \E k \in fuzzy :
                           /\ Closest(k, fuzzy, cleaned)
                           /\ got = ALIAS_TO_SPECIALTY[k].canonical
                   ELSE IF within # {}
                   THEN got = ALIAS_TO_SPECIALTY[MinOf(within)].canonical
                   ELSE got = raw_query

\* C20 witness: a request searched with a query that is an alias once trimmed
\* and lower-cased, with a query whose fuzzy match and whose substring match
\* name different specialties, and with a query that nothing matches.
C20_Witness ==
    \E w \in Workers :
        /\ pc[w] = "gr_tools"
        /\ Len(gr[w].calls) = 6
        /\ LET c == gr[w].calls
           IN  /\ c[2].args.query # Lower(Strip(c[2].args.query))
               /\ c[2].sent.query = Cardiologist
               /\ FuzzyMatches(Lower(c[4].args.query)) # {}
               /\ SubstringMatches(Lower(c[4].args.query)) # {}
               /\ c[4].sent.query #
                     ALIAS_TO_SPECIALTY[MinOf(SubstringMatches(
                                                 Lower(c[4].args.query)))].canonical
               /\ c[6].args.query # <<>>
               /\ c[6].args.query # Lower(Strip(c[6].args.query))
               /\ c[6].sent.query = c[6].args.query

-----------------------------------------------------------------------------
(* Properties of racing requests *)

\* the window after one logged call
Applied(window, entry) ==
    CASE entry.op = "set_history" -> LastTurns(entry.turns, 5)
      [] entry.op = "append_messages" -> LastTurns(window \o entry.turns, 5)
      [] entry.op = "clear" -> <<>>

\* the window after the logged calls, applied one after the other
RECURSIVE Replay(_, _)
Replay(window, log) ==
    IF log = <<>> THEN window
    ELSE Replay(Applied(window, Head(log)), Tail(log))

\* the locations inside `with self._lock:`
LockedLocations == MemLocations \ {"acquire"}

\* at most one thread is inside a locked region, and it holds the lock
C21_OneCallAtATime ==
    \A w \in Workers :
        pc[w] \in LockedLocations =>
            /\ lock = w
            /\ \A v \in Workers \ {w} : pc[v] \notin LockedLocations

\* whenever no call is inside its locked region, every window is what the
\* calls logged for its identifier yield when applied whole, one after the
\* other, in the order in which they took the lock
C21_AppliedInLockOrder ==
    \A id \in StoreIds :
        (\A w \in Workers : ~InBody(w, id)) =>
            Window(store, id) = Replay(<<>>, oplog[id])

\* the write of a request takes the lock only when no write of another
\* request that reached the store for the same identifier before it is still
\* waiting
C21_LockGrantedInArrivalOrder ==
    \A w \in Workers :
        (lock = w /\ gr[w].active /\ IsWrite(mem[w].op)) =>
            \A v \in mem[w].ahead : ~gr[v].active

\* C21 (as amended): racing set_history / append_messages calls of several
\* requests on one identifier are each applied atomically, and they are
\* applied in the order in which they took the store lock.
C21_WritesAtomicInLockOrder ==
    C21_OneCallAtATime /\ C21_AppliedInLockOrder

\* C21 (as stated): racing set_history / append_messages calls of several
\* requests on one identifier are each applied atomically, and they are
\* applied in the order in which the requests arrived at the store.
C21_WritesAtomicInArrivalOrder ==
    C21_OneCallAtATime /\ C21_AppliedInLockOrder /\ C21_LockGrantedInArrivalOrder

\* C21 witness: two requests raced for one identifier: the set_history of one
\* took the lock while the other waited to append, both writes are applied,
\* and the window is the replaced history followed by the appended exchange.
C21_Witness ==
    \E id \in StoreIds :
        /\ \A w \in Workers : gr[w].active /\ gr[w].effective_id = id
        /\ \A w \in Workers : ~InBody(w, id)
        /\ Len(oplog[id]) = 2
        /\ oplog[id][1].op = "set_history"
        /\ oplog[id][1].contended
        /\ Len(oplog[id][1].turns) > 5
        /\ oplog[id][2].op = "append_messages"
        /\ Window(store, id) =
              LastTurns(oplog[id][1].turns, 3) \o oplog[id][2].turns

-----------------------------------------------------------------------------
(* Properties of the conversation identity *)

\* the identifier of the rule: the caller's if one is given, else the
\* reserved default when there is no inline history, else none
Resolved(given, conversation_id, history) ==
    IF given THEN conversation_id
    ELSE IF history = <<>> THEN DEFAULT_CONVERSATION_ID
    ELSE None

\* the request of worker w runs under identifier id: every History Store call
\* it makes names id, and with no identifier it makes none
RunsUnder(w, id) ==
    /\ gr[w].effective_id = id
    /\ pc[w] \in MemLocations => mem[w].id = id /\ id # None
    /\ id = None => pc[w] \notin MemLocations

\* C22 (as amended): a request runs under the caller's identifier if the
\* caller supplied a non-empty one; otherwise under the reserved default
\* identifier if the caller supplied no inline history; otherwise under no
\* identifier.  An empty string counts as no identifier.
C22_NonEmptyIdentifierResolution ==
    \A w \in Workers :
        gr[w].active =>
            RunsUnder(w, Resolved(gr[w].conversation_id \notin {None, ""},
                                  gr[w].conversation_id, gr[w].history))

\* C22 (as stated): a request runs under the caller's identifier if the
\* caller supplied one; otherwise under the reserved default identifier if
\* the caller supplied no inline history; otherwise under no identifier.
C22_SuppliedIdentifierResolution ==
    \A w \in Workers :
        gr[w].active =>
            RunsUnder(w, Resolved(gr[w].conversation_id # None,
                                  gr[w].conversation_id, gr[w].history))

\* C22 witness: a request whose caller sent the empty string as identifier
\* and no inline history is appending its exchange to the default session,
\* after a request with an identifier and inline history filled that
\* identifier's window.
C22_Witness ==
    \E w \in Workers :
        /\ gr[w].active
        /\ gr[w].conversation_id = ""
        /\ gr[w].history = <<>>
        /\ pc[w] = "append_loop"
        /\ mem[w].id = DEFAULT_CONVERSATION_ID
        /\ \E id \in DOMAIN store : id # DEFAULT_CONVERSATION_ID /\ Len(store[id]) = 5

\* worker w serves a stateful request with inline history and has read the
\* window back (it still holds the lock of get_history)
ReadBack(w) ==
    /\ gr[w].active
    /\ Truthy(gr[w].effective_id)
    /\ gr[w].history # <<>>
    /\ Got(w)
    /\ mem[w].ret = "gr_got"

\* the only write logged for the identifier of w's request is the
\* set_history of that request
OwnReplaceIsLast(w) ==
    /\ Len(oplog[gr[w].effective_id]) = 1
    /\ oplog[gr[w].effective_id][1].op = "set_history"
    /\ oplog[gr[w].effective_id][1].turns = gr[w].history

\* C23 (as amended): the window a stateful request with inline history reads
\* back is the window left by the writes that took the lock before the read;
\* it is the supplied history truncated to its last 5 turns when no other
\* write on the identifier took the lock after the request's set_history.
C23_ReadBackIsLastWrittenWindow ==
    \A w \in Workers :
        ReadBack(w) =>
            /\ mem[w].result = Replay(<<>>, oplog[gr[w].effective_id])
            /\ OwnReplaceIsLast(w) => mem[w].result = LastTurns(gr[w].history, 5)

\* C23 (as stated): the window a stateful request with inline history reads
\* back is the supplied history truncated to its last 5 turns, under every
\* interleaving with other requests on the same identifier.
C23_ReadBackIsSuppliedHistory ==
    \A w \in Workers :
        ReadBack(w) => mem[w].result = LastTurns(gr[w].history, 5)

\* C23 witness: a request that supplied more than 5 turns reads back their
\* last 5 while another request on the same identifier, whose own inline
\* history it replaced, is under way.
C23_Witness ==
    \E w \in Workers, v \in Workers :
        /\ ReadBack(w)
        /\ OwnReplaceIsLast(w)
        /\ Len(gr[w].history) > 5
        /\ Len(mem[w].result) = 5
        /\ v # w
        /\ gr[v].active
        /\ gr[v].effective_id = gr[w].effective_id
        /\ gr[v].history # <<>>
        /\ gr[v].history # gr[w].history
        /\ pc[v] \in {"gr_got", "gr_loop", "gr_tools", "gr_after", "gr_persist"}

-----------------------------------------------------------------------------
(* Properties of a session *)

\* [user_1, reply_1, ..., user_(k-1), reply_(k-1)]: the exchanges of the
\* requests before request k
ExchangesBefore(k) ==
    [j \in 1..(2 * (k - 1)) |->
        IF j % 2 = 1 THEN Message("user", "u" \o ToString((j + 1) \div 2))
        ELSE Message("assistant", "r" \o ToString(j \div 2))]

\* the message the context holds for a user or assistant turn
AsContext(turn) ==
    IF turn.role = "user" THEN HumanMessage(turn.content)
    ELSE AIMessage(turn.content)

\* worker w serves a request without inline history that has not yet made
\* its first model call
BeforeFirstModelCall(w) ==
    /\ gr[w].active
    /\ gr[w].history = <<>>
    /\ gr[w].calls = <<>>

\* the window request k reads, and the context it builds from it
C24_ContextHoldsEarlierExchanges ==
    \A w \in Workers :
        LET used == LastTurns(ExchangesBefore(ncalls), 5)
        IN  /\ (BeforeFirstModelCall(w) /\ pc[w] = "gr_got") => mem[w].result = used
            /\ AtFirstModelCall(w) =>
                  gr[w].conversation =
                      <<SystemMessage(SYSTEM_PROMPT)>>
                         \o [i \in 1..Len(used) |-> AsContext(used[i])]
                         \o <<HumanMessage("u" \o ToString(ncalls))>>

\* a request without inline history makes no set_history and no clear call
C24_NoReplaceCall ==
    \A w \in Workers :
        (gr[w].active /\ gr[w].history = <<>>) =>
            /\ pc[w] # "gr_set"
            /\ mem[w].op \notin {"set_history", "clear"}

\* no step of a request without inline history changes a window before the
\* request has read it
C24_WindowKeptUntilRead ==
    \A w \in Workers :
        (BeforeFirstModelCall(w) /\ pc[w] # "gr_loop") => store' = store

\* C24: in a sequence of completed, non-overlapping requests 1..k under one
\* identifier without inline history, starting from an absent window, the
\* history in request k's context is the last 5 turns of [user_1, reply_1,
\* ..., user_(k-1), reply_(k-1)]; such a request neither replaces nor clears
\* the stored window before reading it.
C24_SessionContext ==
    /\ [](C24_ContextHoldsEarlierExchanges /\ C24_NoReplaceCall)
    /\ [][C24_WindowKeptUntilRead]_vars

\* C24 witness: the fourth request of a session is about to make its first
\* model call: of the 6 turns of the three earlier exchanges its context
\* holds the last 5, starting with the first reply.
C24_Witness ==
    \E w \in Workers :
        /\ AtFirstModelCall(w)
        /\ ncalls = 4
        /\ Len(gr[w].conversation) = 7
        /\ gr[w].conversation[2] = AIMessage("r1")
        /\ gr[w].conversation[6] = AIMessage("r3")
        /\ gr[w].conversation[7] = HumanMessage("u4")

-----------------------------------------------------------------------------
(* Properties of the store lock *)

\* worker w is at a model call or at a tool call of its request
InModelOrToolCall(w) ==
    \/ pc[w] = "gr_loop" /\ LoopContinues(gr[w].iteration)
    \/ pc[w] = "gr_tools" /\ gr[w].tool_calls # <<>>
    \/ pc[w] = "gr_after" /\ NeedsFinalCall(gr[w].reply_text)

\* worker w is inside a ConversationMemory method
InStoreCall(w) == pc[w] \in MemLocations

\* the lock is held only inside a locked region: not during a model call or
\* a tool call, and not after a store method returned
C25_LockHeldOnlyInside ==
    /\ \A w \in Workers : InModelOrToolCall(w) => lock # w
    /\ \A w \in Workers : pc[w] \notin LockedLocations => lock # w
    /\ lock # NoWorker => pc[lock] \in LockedLocations

\* the step that leaves a store method leaves the lock free
C25_ReturnFreesLock ==
    \A w \in Workers :
        (InStoreCall(w) /\ ~InStoreCall(w)') => lock' = NoWorker

\* C25: the store lock is never held while a model call or a tool call is in
\* progress, and every store operation releases it before returning; so every
\* store operation a request has entered completes, even when model calls and
\* tool calls of other requests never return, and requests cannot deadlock
\* on the store.
C25_StoreNeverWaitsForCalls ==
    /\ [](C25_LockHeldOnlyInside)
    /\ [][C25_ReturnFreesLock]_vars
    /\ \A w \in Workers : InStoreCall(w) ~> ~InStoreCall(w)

\* C25 witness: a request is inside append_messages, holding the lock, while
\* another request on the same identifier is at a tool call.
C25_Witness ==
    \E w \in Workers, v \in Workers :
        /\ v # w
        /\ pc[w] = "gr_tools"
        /\ gr[w].tool_calls # <<>>
        /\ gr[v].active
        /\ gr[v].effective_id = gr[w].effective_id
        /\ lock = v
        /\ pc[v] = "append_loop"

====
